---------------------------- MODULE Spec2Model ----------------------------
(***************************************************************************)
(* A state-machine model of the P9221/P9382 wireless charger driver        *)
(* (src/p9221_charger.c): the receive session (online/offline), the        *)
(* reverse-power (RTX) controls, the delayed tasks of a session, the       *)
(* protection handler and the votables the driver casts votes on.          *)
(*                                                                         *)
(* Interrupt threads, sysfs stores and notifier callbacks run as atomic    *)
(* actions; the work items and the alarm callback that race with           *)
(* p9221_set_offline are split at the points where the other side can run  *)
(* in between (no lock of the driver covers the session state).            *)
(***************************************************************************)
EXTENDS Integers, Sequences, FiniteSets, TLC

(***************************************************************************)
(* Program constants.                                                      *)
(***************************************************************************)
P9221R5_OVER_CHECK_NUM == 3

OVC_LIMIT == 1

OVC_THRESHOLD == 1400000

OVC_BACKOFF_LIMIT == 900000

OVC_BACKOFF_AMOUNT == 100000

RTX_BEN_DISABLED == 0

RTX_BEN_ON == 1

RTX_BEN_ENABLED == 2

\* Values of p9221_charger.h, which is not among the sources.
P9221_DC_ICL_BPP_UA == 700000

P9221_DC_ICL_BPP_RAMP_DEFAULT_UA == 900000

P9221_DC_ICL_EPP_UA == 1100000

P9382A_DC_ICL_EPP_1000 == 1000000

P9382A_RTX_ICL_MAX_MA == 1350

P9221_MA_TO_UA(ma) ==
    ma * 1000

\* errno values, returned negated.
EINVAL == 22

ENODEV == 19

EIO == 5

EAGAIN == 11

EBUSY == 16

\* The delay of txid_work, in ticks of the clock.
TXID_SEND_DELAY_MS == 2

\* The clock stops here.
MaxTime == 4

ETIMEDOUT == 110

INT_MAX == 2147483647

(***************************************************************************)
(* Bounds of the model.                                                    *)
(***************************************************************************)
\* External clients vote 0 or one of MaxVote values stepping up from
\* OVC_BACKOFF_LIMIT by OVC_BACKOFF_AMOUNT.
MaxVote == 1

VoteValues ==
    {0} \cup {OVC_BACKOFF_LIMIT + (n - 1) * OVC_BACKOFF_AMOUNT : n \in 1..MaxVote}

VARIABLES
    charger,     \* struct p9221_charger_data: the fields the handlers use
    registry,    \* the names find_votable() resolves
    dc_icl,      \* the DC_ICL votable
    tx_icl,      \* the TX_ICL votable (created in probe)
    dcin_en,     \* the DISABLE_DCIN_EN votable
    gpio,        \* levels of the boost-enable and switch outputs
    pending,     \* delayed work items and alarms that are queued
    pc,          \* position of each work item / callback that is executing
    over,        \* p9221_over_handle in progress: position, locals, effects
    call,        \* the RTX control the last step called, if any: name,
                 \* result, ordered effects
    published,   \* the alignment score of the last uevent p9221_align_work
                 \* scheduled in this session (-1: none yet)
    fault,       \* undefined operations executed so far
    fod,         \* what the last step's p9221_write_fod did, if it ran one
    poll,        \* np: times the negotiated-power poll has requeued
                 \* notifier_work since the last interrupt or "dc"
                 \* notification; vout: writes of the last step's
                 \* p9221_set_bpp_vout
    tx,          \* busy, done: tx_busy and tx_done; cmd_lock: the holder
                 \* of cmd_lock; at: where each register sequence is;
                 \* cut: sequences another one's register operation has
                 \* landed in
    timer        \* now: the clock; txid: when the queued txid_work is due
                 \* (-1: not queued); connect: when rtx_irq_handler last
                 \* read a connected receiver (-1: never); cancelled: the
                 \* last cancel of txid_work found it queued

vars ==
    <<charger, registry, dc_icl, tx_icl, dcin_en, gpio, pending, pc, over, call,
      published, fault, fod, poll, tx, timer>>

(***************************************************************************)
(* The votable (pmic-voter): one vote per client, the effective result is  *)
(* elected on every cast and stored; -EINVAL stands for "no result".       *)
(***************************************************************************)
DcIclClients ==
    <<"WLC_VOTER", "OCP_VOTER", "DCIN_AICL_VOTER", "USER_VOTER">>

TxIclClients ==
    <<"RTX_VOTER", "THERMAL_DAEMON_VOTER", "OTHER_VOTER">>

DcinEnClients ==
    <<"WLC_VOTER", "OTHER_VOTER">>

ClientId(clients, name) ==
    CHOOSE i \in 1..Len(clients) : clients[i] = name

RECURSIVE vote_min_loop(_, _, _, _)
vote_min_loop(votes, i, eff_res, eff_id) ==
    IF i > Len(votes)
    THEN IF eff_id = -EINVAL THEN -EINVAL ELSE eff_res
    ELSE IF votes[i].enabled /\ eff_res > votes[i].value
         THEN vote_min_loop(votes, i + 1, votes[i].value, i)
         ELSE vote_min_loop(votes, i + 1, eff_res, eff_id)

vote_min(votes) ==
    vote_min_loop(votes, 1, INT_MAX, -EINVAL)

RECURSIVE vote_max_loop(_, _, _, _)
vote_max_loop(votes, i, eff_res, eff_id) ==
    IF i > Len(votes)
    THEN IF eff_id = -EINVAL THEN -EINVAL ELSE eff_res
    ELSE IF votes[i].enabled /\ eff_res < votes[i].value
         THEN vote_max_loop(votes, i + 1, votes[i].value, i)
         ELSE vote_max_loop(votes, i + 1, eff_res, eff_id)

vote_max(votes) ==
    vote_max_loop(votes, 1, -INT_MAX, -EINVAL)

RECURSIVE vote_any_loop(_, _)
vote_any_loop(votes, i) ==
    IF i > Len(votes) THEN 0
    ELSE IF votes[i].enabled THEN 1
    ELSE vote_any_loop(votes, i + 1)

Elect(type, votes) ==
    CASE type = "VOTE_MIN" -> vote_min(votes)
      [] type = "VOTE_MAX" -> vote_max(votes)
      [] OTHER -> vote_any_loop(votes, 1)

create_votable(type, clients) ==
    [type |-> type,
     votes |-> [i \in 1..Len(clients) |-> [enabled |-> FALSE, value |-> 0]],
     effective_result |-> -EINVAL,
     voted_on |-> FALSE]

\* vote(): the store after the cast, and whether the callback is invoked
\* (the first cast, or a cast that changes the effective result).
vote(v, id, enabled, val) ==
    LET value == IF v.type = "VOTE_SET_ANY" THEN (IF enabled THEN 1 ELSE 0) ELSE val
        similar == v.votes[id].enabled = enabled /\ v.votes[id].value = value
        votes2 == [v.votes EXCEPT ![id] = [enabled |-> enabled, value |-> value]]
        eff == Elect(v.type, votes2)
        skip == similar /\ v.voted_on
        fire == ~skip /\ (~v.voted_on \/ eff # v.effective_result)
    IN  [store |-> IF skip THEN [v EXCEPT !.votes = votes2]
                   ELSE [v EXCEPT !.votes = votes2,
                                  !.effective_result = IF fire THEN eff ELSE @,
                                  !.voted_on = TRUE],
         callback |-> fire,
         result |-> eff]

get_effective_result(found, v) ==
    IF ~found THEN -EINVAL ELSE v.effective_result

get_client_vote(found, v, id) ==
    IF ~found THEN -EINVAL
    ELSE IF v.type # "VOTE_SET_ANY" /\ ~v.votes[id].enabled THEN -EINVAL
    ELSE v.votes[id].value

ActiveVotes(v) ==
    {i \in DOMAIN v.votes : v.votes[i].enabled}

(***************************************************************************)
(* The state a handler works on, threaded through the calls it makes: the  *)
(* variables, the ordered effects it had so far (trace) and the value the  *)
(* last call returned (ret).                                               *)
(***************************************************************************)
\* The clock at 0, no txid_work queued, no receiver seen.
NoTimer ==
    [now |-> 0, txid |-> -1, connect |-> -1, cancelled |-> FALSE]

\* The register sequences under cmd_lock; txlen_a and txlen_b are two
\* writers of the txlen attribute, each in p9221_send_data.
CmdThreads ==
    {"send_eop", "send_csp", "clear_interrupts", "txid_work",
     "txlen_a", "txlen_b"}

TxlenThreads ==
    {"txlen_a", "txlen_b"}

TxThreads ==
    CmdThreads \cup {"write_fod"}

\* A sequence that is not running: pc "idle"; k counts the register
\* operations it has done, ret is the result it carries.
SeqIdle ==
    [pc |-> "idle", k |-> 0, ret |-> 0]

\* The charger structure is zeroed when allocated: no send in flight, none
\* done, cmd_lock free.
NoTx ==
    [busy |-> FALSE, done |-> FALSE, cmd_lock |-> "none",
     at |-> [t \in TxThreads |-> SeqIdle], cut |-> {}]

\* No p9221_write_fod has run.
NoFod ==
    [writes |-> 0, outcome |-> "none"]

World ==
    [c |-> charger, dc_icl |-> dc_icl, tx_icl |-> tx_icl, dcin_en |-> dcin_en,
     gpio |-> gpio, pending |-> pending, trace |-> <<>>, ret |-> 0,
     fault |-> fault, fod |-> NoFod, poll |-> [np |-> poll.np, vout |-> 0],
     tx |-> tx, timer |-> timer]

\* p9221_align_work schedules a uevent exactly when it moves alignment_last
\* to the score it computed; the session starts and ends with none.
uevent_score(c) ==
    IF c.online # charger.online THEN -1
    ELSE IF c.alignment_last \notin {charger.alignment_last, -1}
    THEN c.alignment_last
    ELSE published

Store(w) ==
    /\ charger' = w.c
    /\ dc_icl' = w.dc_icl
    /\ tx_icl' = w.tx_icl
    /\ dcin_en' = w.dcin_en
    /\ gpio' = w.gpio
    /\ pending' = w.pending
    /\ registry' = registry
    /\ fault' = w.fault
    /\ fod' = w.fod
    /\ poll' = w.poll
    /\ tx' = w.tx
    /\ timer' = w.timer
    /\ published' = uevent_score(w.c)

Commit(w) ==
    Store(w) /\ over' = over

Ev(w, e) ==
    [w EXCEPT !.trace = Append(@, e)]

schedule_delayed_work(w, work) ==
    [w EXCEPT !.pending = @ \cup {work}]

cancel_delayed_work(w, work) ==
    [w EXCEPT !.pending = @ \ {work}]

\* vote() on DC_ICL by one of its clients; the callers check the pointer.
vote_dc_icl(w, client, enabled, val) ==
    [w EXCEPT !.dc_icl = vote(@, ClientId(DcIclClients, client), enabled, val).store]

\* vote() on DISABLE_DCIN_EN as P9221_WLC_VOTER: -EINVAL on a NULL votable,
\* otherwise the vote is recorded and the result is the callback's (cb_ret).
vote_dcin_en(w, enabled, cb_ret) ==
    IF ~w.c.disable_dcin_en_votable
    THEN [w EXCEPT !.ret = -EINVAL]
    ELSE LET r == vote(w.dcin_en, ClientId(DcinEnClients, "WLC_VOTER"), enabled, 0)
         IN  [w EXCEPT !.dcin_en = r.store,
                       !.ret = IF r.callback THEN cb_ret ELSE 0]

(***************************************************************************)
(* Reverse power (RTX).                                                    *)
(***************************************************************************)
p9382_rtx_enable(w, enable) ==
    LET lvl == IF enable THEN 1 ELSE 0
        g1 == IF w.c.ben_gpio >= 0 THEN [w.gpio EXCEPT !.ben = lvl] ELSE w.gpio
        g2 == IF w.c.switch_gpio >= 0 THEN [g1 EXCEPT !.sw = lvl] ELSE g1
    IN  [w EXCEPT !.gpio = g2,
                  !.ret = IF w.c.ben_gpio < 0 /\ w.c.switch_gpio < 0
                          THEN -ENODEV ELSE 0]

p9382_ben_cfg(w, cfg) ==
    CASE cfg = RTX_BEN_DISABLED ->
            LET w1 == IF w.c.ben_state = RTX_BEN_ON
                      THEN p9382_rtx_enable(w, FALSE)
                      ELSE IF w.c.ben_gpio = RTX_BEN_ENABLED
                           THEN [w EXCEPT !.gpio.ben = 0]
                           ELSE w
            IN  Ev([w1 EXCEPT !.c.ben_state = cfg, !.ret = 0], "ben_disabled")
      [] cfg = RTX_BEN_ENABLED ->
            LET w1 == [w EXCEPT !.c.ben_state = cfg, !.ret = 0]
            IN  Ev(IF w.c.ben_gpio >= 0 THEN [w1 EXCEPT !.gpio.ben = 1] ELSE w1,
                   "ben_enabled")
      [] cfg = RTX_BEN_ON ->
            Ev([p9382_rtx_enable([w EXCEPT !.c.ben_state = cfg], TRUE)
                   EXCEPT !.ret = 0], "ben_on")
      [] OTHER -> [w EXCEPT !.ret = -EINVAL]

\* p9382_set_rtx_boost: state is buf[0] - '0'; the result is count (0 here)
\* or the error.
p9382_set_rtx_boost(w, state) ==
    IF state # 0 /\ w.c.online /\ w.c.ben_state = RTX_BEN_DISABLED
    THEN [w EXCEPT !.ret = -ENODEV]
    ELSE p9382_ben_cfg(w, state)

\* The disable branch of p9382_set_rtx.  in.tx_mode_ret is the result of
\* chip_tx_mode_en, in.vote_ret the result of the DISABLE_DCIN_EN callback.
set_rtx_tx_mode_off(w, in) ==
    IF w.c.rtx_err # "RTX_TX_CONFLICT"
    THEN [Ev(w, "tx_mode_off") EXCEPT !.ret = in.tx_mode_ret]
    ELSE w

set_rtx_unvote(w, in) ==
    IF w.ret < 0 THEN w
    ELSE Ev(vote_dcin_en(w, FALSE, in.vote_ret), "unvote_dcin_en")

set_rtx_disable(w, in) ==
    set_rtx_unvote(p9382_ben_cfg(set_rtx_tx_mode_off(w, in), RTX_BEN_DISABLED), in)

\* The enable branch of p9382_set_rtx once the two admission checks
\* passed: the DISABLE_DCIN_EN vote ...
set_rtx_vote(w, in) ==
    IF w.c.disable_dcin_en_votable \/ "DISABLE_DCIN_EN" \in registry
    THEN Ev(vote_dcin_en([w EXCEPT !.c.disable_dcin_en_votable = TRUE],
                         TRUE, in.vote_ret),
            "vote_dcin_en")
    ELSE [w EXCEPT !.ret = 0]

\* ... the TX_ICL configuration that ends it ...
set_rtx_tx_ilim(w, in) ==
    IF w.c.tx_icl_votable
       /\ get_effective_result(TRUE, w.tx_icl) > 0
       /\ get_effective_result(TRUE, w.tx_icl) # P9221_MA_TO_UA(P9382A_RTX_ICL_MAX_MA)
    THEN [Ev(w, "set_tx_ilim") EXCEPT !.ret = in.ilim_ret]
    ELSE [w EXCEPT !.ret = in.irq_ret]

\* A failed chip_tx_mode_en(true) that leaves the outputs and the vote.
set_rtx_tx_mode_on_kept(w, in) ==
    IF in.tx_mode_ret < 0
    THEN [w EXCEPT !.ret = in.tx_mode_ret]
    ELSE set_rtx_tx_ilim(w, in)

\* ... what follows chip_tx_mode_en(true) ...
set_rtx_tx_mode_on(w, in) ==
    IF in.tx_mode_ret < 0
    THEN [Ev(vote_dcin_en(p9382_ben_cfg(w, RTX_BEN_DISABLED), FALSE, in.vote_ret),
             "unvote_dcin_en")
             EXCEPT !.ret = in.tx_mode_ret]
    ELSE set_rtx_tx_ilim(w, in)

\* An enable that goes on whatever the vote returned.
set_rtx_boost_on_unchecked(w, in) ==
    set_rtx_tx_mode_on(
        Ev(p9382_ben_cfg([w EXCEPT !.c.rtx_csp = 0,
                                   !.c.rtx_err = "RTX_NO_ERROR"],
                         RTX_BEN_ON),
           "tx_mode_on"),
        in)

\* ... and what follows the vote.
set_rtx_boost_on(w, in) ==
    IF w.ret # 0 THEN w
    ELSE set_rtx_tx_mode_on(
             Ev(p9382_ben_cfg([w EXCEPT !.c.rtx_csp = 0,
                                        !.c.rtx_err = "RTX_NO_ERROR"],
                              RTX_BEN_ON),
                "tx_mode_on"),
             in)

set_rtx_admitted(w, in) ==
    set_rtx_boost_on(set_rtx_vote(w, in), in)

\* A p9382_set_rtx that admits an enable while the session is online.
set_rtx_online_unchecked(w, enable, in) ==
    IF ~enable THEN set_rtx_disable(w, in)
    ELSE IF w.c.tx_icl_votable /\ get_effective_result(TRUE, w.tx_icl) = 0
    THEN [w EXCEPT !.ret = 0]
    ELSE set_rtx_admitted(w, in)

p9382_set_rtx(w, enable, in) ==
    IF ~enable THEN set_rtx_disable(w, in)
    ELSE IF w.c.tx_icl_votable /\ get_effective_result(TRUE, w.tx_icl) = 0
    THEN [w EXCEPT !.ret = 0]
    ELSE IF w.c.online THEN [w EXCEPT !.ret = 0]
    ELSE set_rtx_admitted(w, in)

\* rtx_store: buf[0] is '0', '1' or something else; count is returned as 0.
rtx_store(w, buf0, in) ==
    IF buf0 = "0" THEN p9382_set_rtx(w, FALSE, in)
    ELSE IF buf0 = "1" THEN p9382_set_rtx(w, TRUE, in)
    ELSE [w EXCEPT !.ret = -EINVAL]

(***************************************************************************)
(* The receive session.  `chip` is what the chip answers during one        *)
(* handler: sys_mode ("err" when the read fails), vout_mv (-1 when the     *)
(* read fails), mfg (-1 when the read fails) and np, the negotiated power. *)
(***************************************************************************)
WLC_MFG_GOOGLE == 114

WLC_ALIGNMENT_MAX == 100

WLC_CURRENT_FILTER_LENGTH == 10

\* p9221_charger.h
P9221_EPP_THRESHOLD_UV == 7000000

P9221_PTMC_EPP_TX_1912 == 50

p9221_is_epp(c, chip) ==
    IF c.fake_force_epp THEN TRUE
    ELSE IF c.force_bpp THEN FALSE
    ELSE IF chip.sys_mode # "err"
         THEN chip.sys_mode \in {"WPC_EXTD", "PROPRIETARY"}
         ELSE IF chip.vout_mv < 0 THEN FALSE
              ELSE P9221_MA_TO_UA(chip.vout_mv) > P9221_EPP_THRESHOLD_UV

\* What a call of p9221_is_epp leaves in the charger: mfg is read again
\* while it is 0, and is_mfg_google follows it.
is_epp_effect(c, chip) ==
    IF c.fake_force_epp \/ c.force_bpp THEN c
    ELSE LET mfg == IF c.mfg = 0 /\ chip.mfg >= 0 THEN chip.mfg ELSE c.mfg
         IN  [c EXCEPT !.mfg = mfg, !.is_mfg_google = (mfg = WLC_MFG_GOOGLE)]

p9221_vote_defaults(w) ==
    IF ~w.c.dc_icl_votable THEN w
    ELSE vote_dc_icl(vote_dc_icl(w, "WLC_VOTER", TRUE, P9221_DC_ICL_BPP_UA),
                     "OCP_VOTER", TRUE,
                     IF w.c.dc_icl_epp > 0 THEN w.c.dc_icl_epp
                     ELSE P9221_DC_ICL_EPP_UA)

\* alarm_try_to_cancel fails while the callback is executing.
p9221_icl_ramp_reset(w, alarm_running) ==
    [w EXCEPT !.c.icl_ramp = FALSE,
              !.pending = IF alarm_running THEN @ \ {"icl_ramp_work"}
                          ELSE @ \ {"icl_ramp_alarm", "icl_ramp_work"}]

p9221_abort_transfers(w) ==
    cancel_delayed_work([w EXCEPT !.tx.busy = FALSE, !.tx.done = TRUE],
                        "tx_work")

\* p9221_set_offline: the fields and the two cancels ...
set_offline_reset(w) ==
    [cancel_delayed_work(
         cancel_delayed_work(
             p9221_abort_transfers([w EXCEPT !.c.online = FALSE,
                                             !.c.force_bpp = FALSE,
                                             !.c.chg_on_rtx = FALSE]),
             "dcin_work"),
         "align_work")
        EXCEPT !.c.alignment = -1,
               !.c.alignment_capable = "ALIGN_MFG_FAILED",
               !.c.mfg = 0,
               !.c.align = "WLC_ALIGN_ERROR",
               !.c.align_count = 0,
               !.pending = @ \ {"vrect_timer"}]

\* ... and the re-enable cooldown that ends it.
set_offline_pon(w) ==
    IF w.c.enabled THEN schedule_delayed_work(w, "dcin_pon_work") ELSE w

p9221_set_offline(w, alarm_running) ==
    set_offline_pon(
        p9221_vote_defaults(
            p9221_icl_ramp_reset(set_offline_reset(w), alarm_running)))

\* The loop of p9221_write_fod.  io[n] is what the bus and the chip answer on
\* the n-th attempt: ret is "werr" when the write fails, "rerr" when the
\* read-back fails, and data is the table read back.
\* The n-th answer of the bus; after the last one listed the chip keeps
\* giving it.
bus_answer(io, n) ==
    IF n <= Len(io) THEN io[n] ELSE io[Len(io)]

RECURSIVE fod_loop(_, _, _, _)
fod_loop(table, io, retries, writes) ==
    IF retries = 0 THEN [writes |-> writes, outcome |-> "not_set"]
    ELSE IF bus_answer(io, writes + 1).ret = "werr"
    THEN [writes |-> writes + 1, outcome |-> "write_error"]
    ELSE IF bus_answer(io, writes + 1).ret = "rerr"
    THEN [writes |-> writes + 1, outcome |-> "read_error"]
    ELSE IF bus_answer(io, writes + 1).data = table
    THEN [writes |-> writes + 1, outcome |-> "verified"]
    ELSE fod_loop(table, io, retries - 1, writes + 1)

\* The table p9221_write_fod picks; <<>> is the NULL pointer.
fod_table(c, chip) ==
    IF p9221_is_epp(c, chip) /\ Len(c.fod_epp) > 0 THEN c.fod_epp ELSE c.fod

\* p9221_write_fod returns nothing: outcome "not_set" is the warning it
\* logs at no_fod.
p9221_write_fod(w, chip) ==
    IF Len(w.c.fod) = 0 /\ Len(w.c.fod_epp) = 0
    THEN [w EXCEPT !.fod = [writes |-> 0, outcome |-> "not_set"]]
    ELSE [w EXCEPT !.c = is_epp_effect(w.c, chip),
                   !.fod = IF fod_table(w.c, chip) = <<>>
                           THEN [writes |-> 0, outcome |-> "not_set"]
                           ELSE fod_loop(fod_table(w.c, chip), chip.fod_io, 3, 0)]

p9221_set_online(w, chip) ==
    [cancel_delayed_work(p9221_write_fod([w EXCEPT !.c.online = TRUE], chip),
                         "dcin_pon_work") EXCEPT
        !.c.online = TRUE,
        !.tx.busy = FALSE,
        !.tx.done = TRUE,
        !.c.align = "WLC_ALIGN_CENTERED",
        !.c.alignment_capable = "ALIGN_MFG_CHECKING",
        !.c.alignment = -1]

p9382_check_neg_power(w, chip) ==
    LET c1 == [w.c EXCEPT !.dc_icl_epp_neg = P9221_DC_ICL_EPP_UA]
        c2 == is_epp_effect(c1, chip)
    IN  IF ~w.c.chip_p9382 THEN [w EXCEPT !.c = c1]
        ELSE IF ~p9221_is_epp(c1, chip) THEN [w EXCEPT !.c = c2]
        ELSE IF c2.is_mfg_google
             THEN [w EXCEPT !.c = [c2 EXCEPT !.dc_icl_epp_neg = P9382A_DC_ICL_EPP_1000]]
        ELSE IF chip.np = "lt10W"
             THEN [w EXCEPT !.c = [c2 EXCEPT !.dc_icl_epp_neg = P9221_DC_ICL_BPP_UA]]
        ELSE IF chip.np = "lt11W"
             THEN [w EXCEPT !.c = [c2 EXCEPT !.dc_icl_epp_neg = P9382A_DC_ICL_EPP_1000]]
        ELSE [w EXCEPT !.c = c2]

\* The limit p9221_set_dc_icl votes for.
set_dc_icl_value(c, chip) ==
    IF p9221_is_epp(c, chip) /\ c.dc_icl_epp # 0 THEN c.dc_icl_epp
    ELSE IF p9221_is_epp(c, chip) THEN c.dc_icl_epp_neg
    ELSE IF c.dc_icl_bpp # 0 THEN c.dc_icl_bpp
    ELSE IF c.icl_ramp THEN c.icl_ramp_ua
    ELSE P9221_DC_ICL_BPP_UA

set_dc_icl_vote(w, icl) ==
    [vote_dc_icl(IF w.c.icl_ramp
                 THEN vote_dc_icl(w, "DCIN_AICL_VOTER", TRUE, icl) ELSE w,
                 "WLC_VOTER", TRUE, icl)
        EXCEPT !.ret = 0]

p9221_set_dc_icl(w, chip) ==
    IF ~(w.c.dc_icl_votable \/ "DC_ICL" \in registry) THEN [w EXCEPT !.ret = -ENODEV]
    ELSE set_dc_icl_vote(
             [w EXCEPT !.c = [is_epp_effect(w.c, chip) EXCEPT !.dc_icl_votable = TRUE]],
             set_dc_icl_value(w.c, chip))

p9221_icl_ramp_start(w, chip, alarm_running) ==
    IF p9221_is_epp(w.c, chip) \/ w.c.icl_ramp_delay_ms = -1 \/ w.c.icl_ramp_ua = 0
    THEN [w EXCEPT !.c = is_epp_effect(w.c, chip)]
    ELSE schedule_delayed_work(
             p9221_icl_ramp_reset([w EXCEPT !.c = is_epp_effect(w.c, chip)],
                                  alarm_running),
             "icl_ramp_alarm")

\* p9221_notifier_check_dc with DC present: the limits and the ramp ...
check_dc_ramp(w, chip, alarm_running) ==
    IF w.c.dc_icl_bpp = 0 THEN p9221_icl_ramp_start(w, chip, alarm_running)
    ELSE w

check_dc_present(w, chip, alarm_running) ==
    check_dc_ramp(
        p9221_write_fod(p9221_set_dc_icl(p9382_check_neg_power(w, chip), chip),
                        chip),
        chip, alarm_running)

\* ... and the transition that ends it.
check_dc_transition(w, dc_in, chip, alarm_running) ==
    IF w.c.online = (dc_in = 1) THEN w
    ELSE IF dc_in = 1 THEN p9221_set_online(w, chip)
    ELSE p9221_set_offline(w, alarm_running)

\* p9221_set_bpp_vout.  io[n] is the n-th answer: set_ret and get_ret are
\* the results of chip_set_vout_max and chip_get_vout_max, vout_mv the
\* value read.
RECURSIVE bpp_vout_loop(_, _)
bpp_vout_loop(io, loops) ==
    IF loops >= 10 THEN [sets |-> loops, ret |-> -ETIMEDOUT]
    ELSE IF bus_answer(io, loops + 1).set_ret < 0
    THEN [sets |-> loops + 1, ret |-> bus_answer(io, loops + 1).set_ret]
    ELSE IF bus_answer(io, loops + 1).get_ret < 0
    THEN [sets |-> loops + 1, ret |-> bus_answer(io, loops + 1).get_ret]
    ELSE IF bus_answer(io, loops + 1).vout_mv = 5000
    THEN [sets |-> loops + 1, ret |-> 0]
    ELSE bpp_vout_loop(io, loops + 1)

p9221_set_bpp_vout(w, chip) ==
    [w EXCEPT !.poll.vout = bpp_vout_loop(chip.vout_io, 0).sets,
              !.ret = bpp_vout_loop(chip.vout_io, 0).ret]

\* p9221_notifier_check_neg_power: ret < 0 on error, 0 on done, 1 on keep
\* trying.  chip.np is the negotiated power ("err": the read fails),
\* chip.status_ret the result of the status read and chip.vout the
\* P9221_STAT_VOUT bit.
check_neg_power_done(w, chip) ==
    IF w.c.force_bpp THEN [p9221_set_bpp_vout(w, chip) EXCEPT !.ret = 0]
    ELSE [w EXCEPT !.ret = 0]

p9221_notifier_check_neg_power(w, chip) ==
    IF chip.np = "err" THEN [w EXCEPT !.ret = -EIO]
    ELSE IF chip.np # "lt10W"
    THEN IF chip.mfg < 0 THEN [w EXCEPT !.ret = -EIO]
         ELSE check_neg_power_done(
                  [w EXCEPT !.c.force_bpp = (chip.mfg = P9221_PTMC_EPP_TX_1912)],
                  chip)
    ELSE IF chip.status_ret # 0 THEN [w EXCEPT !.ret = chip.status_ret]
    ELSE IF ~chip.vout THEN [w EXCEPT !.ret = 1]
    ELSE check_neg_power_done([w EXCEPT !.c.force_bpp = TRUE], chip)

\* The negotiated-power re-check of p9221_notifier_check_dc on a chip older
\* than the P9382A: ret 1 when notifier_work was requeued and the function
\* returns, 0 when it goes on.
\* A re-check that asks for p9221_notifier_check_dc again when it requeues.
check_dc_requeue_again(w) ==
    IF w.ret > 0 /\ "notifier_work" \notin w.pending
    THEN [schedule_delayed_work(w, "notifier_work") EXCEPT
             !.c.check_dc = TRUE, !.poll.np = @ + 1, !.ret = 1]
    ELSE [w EXCEPT !.c.check_np = FALSE, !.ret = 0]

check_dc_requeue(w) ==
    IF w.ret > 0 /\ "notifier_work" \notin w.pending
    THEN [schedule_delayed_work(w, "notifier_work") EXCEPT
             !.poll.np = @ + 1, !.ret = 1]
    ELSE [w EXCEPT !.c.check_np = FALSE, !.ret = 0]

check_dc_np(w, chip) ==
    IF ~w.c.chip_p9382 /\ w.c.check_np
    THEN check_dc_requeue(p9221_notifier_check_neg_power(w, chip))
    ELSE [w EXCEPT !.ret = 0]

\* DC_IN is confirmed: dcin_work and the VRECT timer are stopped.
check_dc_cancels(w) ==
    cancel_delayed_work(cancel_delayed_work(w, "dcin_work"), "vrect_timer")

\* ... and what follows it; dc_in_read is what p9221_has_dc_in finds when
\* dc_psy is set.
check_dc_dcin(w, dc_in_read, chip, alarm_running) ==
    IF w.ret = 1 THEN w
    ELSE IF ~w.c.dc_psy \/ dc_in_read < 0 THEN w
    ELSE IF dc_in_read = 1
    THEN check_dc_transition(
             check_dc_present(check_dc_cancels(w), chip, alarm_running),
             dc_in_read, chip, alarm_running)
    ELSE check_dc_transition(check_dc_cancels(w),
                             dc_in_read, chip, alarm_running)

p9221_notifier_check_dc(w, dc_in_read, chip, alarm_running) ==
    check_dc_dcin(check_dc_np([w EXCEPT !.c.check_dc = FALSE], chip),
                  dc_in_read, chip, alarm_running)

\* p9221_notifier_check_det up to cancel_delayed_work_sync(&dcin_work),
\* which waits for a running dcin_work.
notifier_check_det_begin(w, chip) ==
    p9221_set_online([w EXCEPT !.c.check_np = TRUE], chip)

\* ... and from there to the end.
notifier_check_det_end(w) ==
    [schedule_delayed_work(cancel_delayed_work(w, "dcin_work"), "dcin_work")
        EXCEPT !.c.check_det = FALSE]

p9221_init_align(w) ==
    [schedule_delayed_work(w, "align_work") EXCEPT
        !.c.alignment_last = -1,
        !.c.current_filtered = 0,
        !.c.current_sample_cnt = 0,
        !.c.mfg_check_count = 0]

p9221_show_alignment(w) ==
    IF w.c.alignment = -1 THEN p9221_init_align(w) ELSE w

P9221_KHZ_TO_HZ(khz) ==
    khz * 1000

\* The bucket search of p9221_align_work: the index the loop stops at.
RECURSIVE align_bucket(_, _, _)
align_bucket(freqs, adj_freq, i) ==
    IF i >= Len(freqs) - 1 THEN i
    ELSE IF adj_freq > freqs[i + 1] /\ adj_freq <= freqs[i + 2] THEN i
    ELSE align_bucket(freqs, adj_freq, i + 1)

\* The end of p9221_align_work: the score is stored, and published when it
\* fell or the adjusted frequency is past the hysteresis threshold.
align_work_publish(w, score, adj_freq, threshold) ==
    IF score = w.c.alignment_last
    THEN [w EXCEPT !.c.alignment = score]
    ELSE IF score < w.c.alignment_last \/ adj_freq >= threshold
    THEN [w EXCEPT !.c.alignment = score, !.c.alignment_last = score]
    ELSE [w EXCEPT !.c.alignment = score]

\* p9221_align_work after the online check.  in.chip is the chip, in.iout
\* the output current (-1: read failed), in.op_freq the operating frequency
\* in kHz (-1: read failed).  With two breakpoints the score divides by
\* align_buckets - 1 = 0: in.div0 is what the machine does then, "oops"
\* (the division traps and the work item dies) or "zero" (the quotient
\* is 0).
align_work_body(w, in) ==
    LET c0 == w.c
        w1 == IF c0.mfg_check_count < 10 \/ c0.alignment_capable = "ALIGN_MFG_PASSED"
              THEN schedule_delayed_work(w, "align_work") ELSE w
        checking == c0.alignment_capable = "ALIGN_MFG_CHECKING"
        c1 == IF checking THEN [c0 EXCEPT !.mfg_check_count = @ + 1] ELSE c0
        c2 == IF checking /\ in.chip.mfg >= 0 THEN [c1 EXCEPT !.mfg = in.chip.mfg]
              ELSE c1
        capable == c2.mfg = WLC_MFG_GOOGLE /\ p9221_is_epp(c2, in.chip)
        c3 == IF checking
              THEN [is_epp_effect(c2, in.chip) EXCEPT
                       !.alignment_capable = "ALIGN_MFG_PASSED"]
              ELSE c2
        scalar == c3.alignment_scalar
        current_now == IF in.iout < 0 THEN 0 ELSE in.iout
        sample == c3.current_filtered \div WLC_CURRENT_FILTER_LENGTH
        cnt == IF c3.current_sample_cnt < WLC_CURRENT_FILTER_LENGTH
               THEN c3.current_sample_cnt + 1 ELSE c3.current_sample_cnt
        filt0 == IF c3.current_sample_cnt < WLC_CURRENT_FILTER_LENGTH
                 THEN c3.current_filtered ELSE c3.current_filtered - sample
        filt == filt0 + (current_now \div WLC_CURRENT_FILTER_LENGTH)
        c4 == IF scalar = 0 THEN c3
              ELSE [c3 EXCEPT !.current_sample_cnt = cnt, !.current_filtered = filt]
        current_scaling == IF scalar = 0 THEN 0 ELSE scalar * filt
        freqs == c4.alignment_freq
        align_buckets == Len(freqs) - 1
        adj_freq == P9221_KHZ_TO_HZ(in.op_freq) + current_scaling
        i == align_bucket(freqs, adj_freq, 0)
        threshold == freqs[i + 1] + c4.alignment_hysteresis
    IN  IF checking /\ in.chip.mfg < 0 THEN [w1 EXCEPT !.c = c1]
        ELSE IF checking /\ c2.mfg = 0 THEN [w1 EXCEPT !.c = c2]
        ELSE IF checking /\ ~capable
             THEN [cancel_delayed_work(w1, "align_work") EXCEPT
                      !.c = [(IF c2.mfg = WLC_MFG_GOOGLE
                              THEN is_epp_effect(c2, in.chip) ELSE c2)
                             EXCEPT !.alignment_capable = "ALIGN_MFG_FAILED"]]
        ELSE IF in.op_freq < 0 THEN [w1 EXCEPT !.c = c4]
        ELSE IF adj_freq < freqs[1] \/ i >= align_buckets
             THEN [w1 EXCEPT !.c = [c4 EXCEPT !.alignment = -1]]
        ELSE IF align_buckets = 1 /\ in.div0 = "oops"
             THEN [w1 EXCEPT !.c = c4, !.fault = @ \cup {"div0"}]
        ELSE IF align_buckets = 1
             THEN align_work_publish([w1 EXCEPT !.c = c4, !.fault = @ \cup {"div0"}],
                                     0, adj_freq, threshold)
        ELSE align_work_publish([w1 EXCEPT !.c = c4],
                                (WLC_ALIGNMENT_MAX * i) \div (align_buckets - 1),
                                adj_freq, threshold)

\* rtx_irq_handler, bit by bit.  in.mode_ret and in.status_ret are the
\* results of the two register reads, in.status the status bits, in.csp the
\* CSP register (-1: read failed), in.rtx the inputs of the p9382_set_rtx it
\* calls.
rtx_irq_conflict(w, irq_src, in) ==
    IF "TXCONFLICT" \in irq_src
    THEN p9382_set_rtx([w EXCEPT !.c.rtx_err = "RTX_TX_CONFLICT"], FALSE, in.rtx)
    ELSE w

\* cancel_delayed_work_sync(&charger->txid_work) and
\* schedule_delayed_work(&charger->txid_work, TXID_SEND_DELAY_MS): queueing
\* a work that is queued already changes nothing, its timer included.
cancel_txid_work(w) ==
    [cancel_delayed_work(w, "txid_work")
        EXCEPT !.timer.txid = -1,
               !.timer.cancelled = "txid_work" \in w.pending]

schedule_txid_work(w) ==
    IF "txid_work" \in w.pending THEN w
    ELSE [schedule_delayed_work(w, "txid_work")
             EXCEPT !.timer.txid = w.timer.now + TXID_SEND_DELAY_MS]

\* A connect that queues txid_work without cancelling it first.
rtx_irq_connected_uncancelled(w, irq_src, in) ==
    IF "RXCONNECTED" \notin irq_src THEN w
    ELSE IF "RXCONNECTED" \in in.status
    THEN schedule_txid_work(w)
    ELSE [w EXCEPT !.c.rtx_csp = 0]

rtx_irq_connected(w, irq_src, in) ==
    IF "RXCONNECTED" \notin irq_src THEN w
    ELSE IF "RXCONNECTED" \in in.status
    THEN schedule_txid_work(cancel_txid_work(w))
    ELSE [w EXCEPT !.c.rtx_csp = 0]

rtx_irq_csp(w, irq_src, in) ==
    IF "CSP" \in irq_src /\ "CSP" \in in.status /\ in.csp >= 0
    THEN [w EXCEPT !.c.rtx_csp = in.csp]
    ELSE w

rtx_irq_handler(w, irq_src, in) ==
    IF "MODECHANGED" \in irq_src /\ in.mode_ret # 0 THEN w
    ELSE IF in.status_ret # 0 THEN w
    ELSE rtx_irq_csp(
             rtx_irq_connected(rtx_irq_conflict(w, irq_src, in), irq_src, in),
             irq_src, in)

p9382_rtx_disable_work(w, in) ==
    p9382_set_rtx(
        IF get_client_vote(w.c.tx_icl_votable, w.tx_icl,
                           ClientId(TxIclClients, "THERMAL_DAEMON_VOTER")) = 0
        THEN [w EXCEPT !.c.rtx_err = "RTX_OVER_TEMP"] ELSE w,
        FALSE, in)

p9382a_tx_icl_vote_callback(w, icl_ua, ilim_ret) ==
    IF w.c.ben_state = RTX_BEN_DISABLED THEN [w EXCEPT !.ret = 0]
    ELSE IF icl_ua = 0
         THEN [schedule_delayed_work(w, "rtx_disable_work") EXCEPT !.ret = 0]
    ELSE [Ev(w, "set_tx_ilim") EXCEPT !.ret = ilim_ret]

(***************************************************************************)
(* The environment: what the chip, the bus and the other drivers answer.   *)
(***************************************************************************)
\* A basic-power pad of another maker and Google's extended-power pad.
BppChip ==
    [sys_mode |-> "WPC_BASIC", vout_mv |-> 5000, mfg |-> 1, np |-> "ge11W",
     fod_io |-> <<>>, status_ret |-> 0, vout |-> TRUE, vout_io |-> <<>>]

EppChip ==
    [sys_mode |-> "WPC_EXTD", vout_mv |-> 9000, mfg |-> WLC_MFG_GOOGLE, np |-> "ge11W",
     fod_io |-> <<>>, status_ret |-> 0, vout |-> TRUE, vout_io |-> <<>>]

\* An extended-power pad of another maker.
EppOtherChip ==
    [EppChip EXCEPT !.mfg = 1]

EnvChips ==
    {BppChip, EppChip}

\* Operating frequencies in kHz against the breakpoints AlignFreq in Hz.
AlignFreq ==
    <<100000, 120000, 140000>>

EnvOpFreq ==
    {130}

\* Results of the calls p9382_set_rtx makes: all succeed, or one fails.
RtxOk ==
    [vote_ret |-> 0, tx_mode_ret |-> 0, irq_ret |-> 0, ilim_ret |-> 0]

EnvRtx ==
    {RtxOk, [RtxOk EXCEPT !.vote_ret = -EIO], [RtxOk EXCEPT !.tx_mode_ret = -EIO]}

\* Interrupt sources seen in RTX mode, and the status read with them.
EnvRtxIrq ==
    {{"TXCONFLICT"}, {"CSP"}, {"MODECHANGED", "CSP"}}

(***************************************************************************)
(* The state after p9221_charger_probe with the chip out of field.         *)
(***************************************************************************)
Idle ==
    [notifier |-> "idle", dcin |-> "idle", align |-> "idle", alarm |-> "idle"]

ProbeCharger(ben_gpio, switch_gpio, reg) ==
    [online |-> FALSE, enabled |-> TRUE, chip_p9382 |-> TRUE,
     ben_state |-> RTX_BEN_DISABLED, rtx_err |-> "RTX_NO_ERROR", rtx_csp |-> 0,
     ben_gpio |-> ben_gpio, switch_gpio |-> switch_gpio,
     tx_icl_votable |-> switch_gpio >= 0,
     dc_icl_votable |-> "DC_ICL" \in reg,
     disable_dcin_en_votable |-> FALSE,
     check_det |-> FALSE, check_dc |-> FALSE, check_np |-> FALSE,
     dc_psy |-> FALSE,
     icl_ramp |-> FALSE, icl_ramp_ua |-> P9221_DC_ICL_BPP_RAMP_DEFAULT_UA,
     icl_ramp_delay_ms |-> 0,
     chg_on_rtx |-> FALSE, force_bpp |-> FALSE, fake_force_epp |-> FALSE,
     dc_icl_bpp |-> 0, dc_icl_epp |-> 0, dc_icl_epp_neg |-> P9221_DC_ICL_EPP_UA,
     align |-> "WLC_ALIGN_ERROR", align_count |-> 0,
     alignment |-> -1, alignment_last |-> -1,
     alignment_capable |-> "ALIGN_MFG_FAILED",
     alignment_freq |-> AlignFreq, alignment_scalar |-> 0,
     alignment_hysteresis |-> 0,
     current_filtered |-> 0, current_sample_cnt |-> 0,
     mfg |-> 0, is_mfg_google |-> FALSE, mfg_check_count |-> 0,
     fod |-> <<>>, fod_epp |-> <<>>]

\* A TX_ICL on which the largest vote wins.
TxIclRuleMax ==
    "VOTE_MAX"

\* The rule TX_ICL is created with.
TxIclRule ==
    "VOTE_MIN"

ProbeWorld(ben_gpio, switch_gpio, reg) ==
    p9221_vote_defaults(
        [c |-> ProbeCharger(ben_gpio, switch_gpio, reg),
         dc_icl |-> create_votable("VOTE_MIN", DcIclClients),
         tx_icl |-> IF switch_gpio >= 0
                    THEN vote(create_votable(TxIclRule, TxIclClients),
                              ClientId(TxIclClients, "RTX_VOTER"), TRUE,
                              P9221_MA_TO_UA(P9382A_RTX_ICL_MAX_MA)).store
                    ELSE create_votable(TxIclRule, TxIclClients),
         dcin_en |-> create_votable("VOTE_SET_ANY", DcinEnClients),
         gpio |-> [ben |-> 0, sw |-> 0],
         pending |-> {}, trace |-> <<>>, ret |-> 0, fault |-> {},
         fod |-> NoFod, poll |-> [np |-> 0, vout |-> 0], tx |-> NoTx,
         timer |-> NoTimer])

Called(op, w) ==
    [op |-> op, ret |-> w.ret, trace |-> w.trace]

NoCall ==
    [op |-> "none", ret |-> 0, trace |-> <<>>]

\* No p9221_over_handle has run.
OverIdle ==
    [pc |-> "idle", first |-> {}, irq_src |-> {}, i |-> 0, ovc_count |-> 0,
     eops |-> <<>>, clears |-> 0, cleared |-> {}, reads |-> 0, voted |-> FALSE]

InitWith(w, reg) ==
    /\ charger = w.c
    /\ registry = reg
    /\ dc_icl = w.dc_icl
    /\ tx_icl = w.tx_icl
    /\ dcin_en = w.dcin_en
    /\ gpio = w.gpio
    /\ pending = w.pending
    /\ pc = Idle
    /\ over = OverIdle
    /\ call = NoCall
    /\ published = -1
    /\ fault = w.fault
    /\ fod = w.fod
    /\ poll = w.poll
    /\ tx = w.tx
    /\ timer = w.timer

\* The board: boost-enable and switch outputs wired, DC_ICL and
\* DISABLE_DCIN_EN registered by the charger driver.
Init ==
    InitWith(ProbeWorld(3, 4, {"DC_ICL", "DISABLE_DCIN_EN"}),
             {"DC_ICL", "DISABLE_DCIN_EN"})

(***************************************************************************)
(* Actions: one per handler, work items split where stated.                *)
(***************************************************************************)
AlarmRunning ==
    pc.alarm = "run"

\* A handler ends in world w: what it wrote is stored, and `call` keeps
\* what an RTX entry point returned and did.
Returns(w, op) ==
    Commit(w) /\ call' = Called(op, w)

Ends(w) ==
    Commit(w) /\ call' = NoCall

\* p9221_irq_thread out of RTX mode with VRECT and/or PPRCVD raised;
\* phone tells whether the property packet comes from a phone.
irq_thread_vrect(w, irq_src) ==
    IF "VRECT" \in irq_src /\ ~w.c.online
    THEN schedule_delayed_work([w EXCEPT !.c.check_det = TRUE, !.poll.np = 0],
                               "notifier_work")
    ELSE w

irq_thread_pprcvd(w, irq_src, phone) ==
    IF "PPRCVD" \in irq_src THEN [w EXCEPT !.c.chg_on_rtx = phone] ELSE w

IrqThread(irq_src, phone) ==
    /\ charger.ben_state = RTX_BEN_DISABLED
    /\ Ends(irq_thread_pprcvd(irq_thread_vrect(World, irq_src), irq_src, phone))
    /\ pc' = pc

\* All of p9221_irq_thread.  in.resume_complete, in.read_ret (the read of
\* the interrupt register), in.irq_src (what it read), in.clear_ret (the
\* result of p9221_clear_interrupts), in.phone and in.rtx (the inputs of
\* rtx_irq_handler) are what this run meets.  The trace tells which exit
\* or which handler set the status went to.
irq_thread_rx(w, in) ==
    irq_thread_pprcvd(irq_thread_vrect(Ev(w, "p9221_irq_handler"), in.irq_src),
                      in.irq_src, in.phone)

\* A dispatch that falls through from rtx_irq_handler to the receive side.
irq_thread_route_both(w, in) ==
    IF w.c.ben_state # RTX_BEN_DISABLED
    THEN irq_thread_rx(rtx_irq_handler(Ev(w, "rtx_irq_handler"), in.irq_src, in.rtx),
                       in)
    ELSE irq_thread_rx(w, in)

irq_thread_route(w, in) ==
    IF w.c.ben_state # RTX_BEN_DISABLED
    THEN rtx_irq_handler(Ev(w, "rtx_irq_handler"), in.irq_src, in.rtx)
    ELSE irq_thread_rx(w, in)

p9221_irq_thread(w, in) ==
    IF ~in.resume_complete THEN Ev(w, "not_resumed")
    ELSE IF in.read_ret # 0 THEN Ev(w, "read_failed")
    ELSE IF in.irq_src = {} THEN Ev(w, "no_status")
    ELSE IF in.clear_ret # 0 THEN Ev(w, "clear_failed")
    ELSE irq_thread_route(Ev(w, "cleared"), in)

IrqThreadRun(in) ==
    /\ Returns(p9221_irq_thread(World, in), "irq_thread")
    /\ pc' = pc

\* p9221_irq_thread in RTX mode.
IrqThreadRtx(irq_src, in) ==
    /\ charger.ben_state # RTX_BEN_DISABLED
    /\ Returns(rtx_irq_handler(World, irq_src, in), "rtx_irq")
    /\ pc' = pc

\* p9221_notifier_cb for a change of the "dc" power supply.
\* A p9221_notifier_cb that does not look at ben_state.
p9221_notifier_cb_unguarded(w) ==
    schedule_delayed_work(
        [w EXCEPT !.c.dc_psy = TRUE, !.c.check_dc = TRUE, !.poll.np = 0],
        "notifier_work")

p9221_notifier_cb(w) ==
    IF w.c.ben_state # RTX_BEN_DISABLED THEN w
    ELSE schedule_delayed_work(
             [w EXCEPT !.c.dc_psy = TRUE, !.c.check_dc = TRUE, !.poll.np = 0],
             "notifier_work")

NotifierCb ==
    /\ charger.ben_state = RTX_BEN_DISABLED
    /\ Ends(p9221_notifier_cb(World))
    /\ pc' = pc

\* p9221_notifier_work: the check_dc part ...
notifier_work_dc(w, dc_in, chip, alarm_running) ==
    IF w.c.check_dc THEN p9221_notifier_check_dc(w, dc_in, chip, alarm_running)
    ELSE w

notifier_work_run(w, dc_in, chip, alarm_running) ==
    IF w.c.check_det /\ ~(w.c.online /\ w.c.ben_state = RTX_BEN_DISABLED)
    THEN notifier_check_det_begin(w, chip)
    ELSE notifier_work_dc([w EXCEPT !.c.check_det = FALSE],
                          dc_in, chip, alarm_running)

\* ... and all of it, up to the wait for dcin_work when check_det runs;
\* p9221_notifier_check_det stops the VRECT timer first.
notifier_work_begin(w, dc_in, chip, alarm_running) ==
    notifier_work_run(IF w.c.check_det THEN cancel_delayed_work(w, "vrect_timer")
                      ELSE w,
                      dc_in, chip, alarm_running)

NotifierWorkBegin(dc_in, chip) ==
    /\ "notifier_work" \in pending
    /\ pc.notifier = "idle"
    /\ Ends(notifier_work_begin(cancel_delayed_work(World, "notifier_work"),
                                dc_in, chip, AlarmRunning))
    /\ pc' = [pc EXCEPT !.notifier =
                 IF charger.check_det
                    /\ ~(charger.online /\ charger.ben_state = RTX_BEN_DISABLED)
                 THEN "sync" ELSE "idle"]

NotifierWorkEnd(dc_in, chip) ==
    /\ pc.notifier = "sync"
    /\ pc.dcin = "idle"
    /\ Ends(notifier_work_dc(notifier_check_det_end(World),
                             dc_in, chip, AlarmRunning))
    /\ pc' = [pc EXCEPT !.notifier = "idle"]

\* p9221_dcin_work: the status read ...
DcinWorkBegin(res) ==
    /\ "dcin_work" \in pending
    /\ pc.dcin = "idle"
    /\ Ends(cancel_delayed_work(World, "dcin_work"))
    /\ pc' = [pc EXCEPT !.dcin = IF res = 0 THEN "ok" ELSE "timeout"]

\* A p9221_dcin_work that queues itself again after a failed read too.
p9221_dcin_work_requeued(w, res, alarm_running) ==
    IF res = "ok" THEN schedule_delayed_work(w, "dcin_work")
    ELSE schedule_delayed_work(
             Ev(IF w.c.online THEN p9221_set_offline(w, alarm_running) ELSE w,
                "power_supply_changed"),
             "dcin_work")

\* ... and what follows it: res is "ok" when the read succeeded.
p9221_dcin_work(w, res, alarm_running) ==
    IF res = "ok" THEN schedule_delayed_work(w, "dcin_work")
    ELSE Ev(IF w.c.online THEN p9221_set_offline(w, alarm_running) ELSE w,
            "power_supply_changed")

DcinWorkEnd ==
    /\ pc.dcin # "idle"
    /\ Returns(p9221_dcin_work(World, pc.dcin, AlarmRunning), "dcin_work")
    /\ pc' = [pc EXCEPT !.dcin = "idle"]

ShowAlignment ==
    /\ Ends(p9221_show_alignment(World))
    /\ pc' = pc

\* p9221_align_work up to and including the online check ...
AlignWorkBegin ==
    /\ "align_work" \in pending
    /\ pc.align = "idle"
    /\ Ends([cancel_delayed_work(World, "align_work") EXCEPT !.c.alignment = -1])
    /\ pc' = [pc EXCEPT !.align = IF charger.online THEN "run" ELSE "idle"]

\* ... and after it.
AlignWorkEnd(in) ==
    /\ pc.align = "run"
    /\ Ends(align_work_body(World, in))
    /\ pc' = [pc EXCEPT !.align = "idle"]

\* The ICL ramp alarm expires: p9221_icl_ramp_alarm_cb is entered ...
IclRampAlarmFire ==
    /\ "icl_ramp_alarm" \in pending
    /\ pc.alarm = "idle"
    /\ Ends(cancel_delayed_work(World, "icl_ramp_alarm"))
    /\ pc' = [pc EXCEPT !.alarm = "run"]

\* ... and runs.
IclRampAlarmCb ==
    /\ pc.alarm = "run"
    /\ Ends(IF charger.chg_on_rtx THEN World
            ELSE schedule_delayed_work(World, "icl_ramp_work"))
    /\ pc' = [pc EXCEPT !.alarm = "idle"]

p9221_icl_ramp_work(w, resume_complete, chip) ==
    IF ~resume_complete THEN schedule_delayed_work(w, "icl_ramp_work")
    ELSE p9221_set_dc_icl([w EXCEPT !.c.icl_ramp = TRUE], chip)

IclRampWork(resume_complete, chip) ==
    /\ "icl_ramp_work" \in pending
    /\ Ends(p9221_icl_ramp_work(cancel_delayed_work(World, "icl_ramp_work"),
                                resume_complete, chip))
    /\ pc' = pc

\* p9221_dcin_pon_work; again tells whether DC_RESET still reads 1.
p9221_dcin_pon_work(w, again) ==
    IF w.c.dc_psy /\ again THEN schedule_delayed_work(w, "dcin_pon_work") ELSE w

DcinPonWork(again) ==
    /\ "dcin_pon_work" \in pending
    /\ Ends(p9221_dcin_pon_work(cancel_delayed_work(World, "dcin_pon_work"), again))
    /\ pc' = pc

RtxStore(buf0, in) ==
    /\ charger.switch_gpio >= 0
    /\ Returns(rtx_store(World, buf0, in), "rtx_store_" \o buf0)
    /\ pc' = pc

RtxBoostStore(state) ==
    /\ charger.switch_gpio >= 0
    /\ Returns(p9382_set_rtx_boost(World, state), "rtx_boost_store")
    /\ pc' = pc

RtxDisableWork(in) ==
    /\ "rtx_disable_work" \in pending
    /\ Returns(p9382_rtx_disable_work(
                   cancel_delayed_work(World, "rtx_disable_work"), in),
               "rtx_disable_work")
    /\ pc' = pc

\* Another driver or the thermal daemon casts a vote on TX_ICL: the vote is
\* stored and, when the result changes, the callback runs.
vote_tx_icl(w, r) ==
    IF r.callback
    THEN p9382a_tx_icl_vote_callback([w EXCEPT !.tx_icl = r.store], r.result, 0)
    ELSE [w EXCEPT !.tx_icl = r.store]

VoteTxIcl(client, enabled, val) ==
    /\ charger.tx_icl_votable
    /\ Ends(vote_tx_icl(World,
                        vote(tx_icl, ClientId(TxIclClients, client), enabled, val)))
    /\ pc' = pc

(***************************************************************************)
(* Spec: reverse power against detection.  The rtx and rtx_boost stores,   *)
(* the RTX interrupt path, the TX_ICL votes and rtx_disable_work run       *)
(* against VRECT interrupts, "dc" notifications, notifier_work and the     *)
(* dc-in poll.                                                             *)
(***************************************************************************)
Detection ==
    \/ \E irq_src \in {{"VRECT"}} : IrqThread(irq_src, FALSE)
    \/ \E dc_in \in {0, 1}, chip \in {BppChip} : NotifierWorkBegin(dc_in, chip)
    \/ \E dc_in \in {0, 1}, chip \in {BppChip} : NotifierWorkEnd(dc_in, chip)
    \/ \E res \in {0, -EIO} : DcinWorkBegin(res)
    \/ DcinWorkEnd

Next ==
    \/ Detection
    \/ \E irq_src \in EnvRtxIrq, in \in EnvRtx :
           IrqThreadRtx(irq_src, [mode_ret |-> 0, status_ret |-> 0,
                                  status |-> irq_src, csp |-> 1, rtx |-> in])
    \/ \E buf0 \in {"0", "1"}, in \in EnvRtx : RtxStore(buf0, in)
    \/ \E state \in {RTX_BEN_DISABLED, RTX_BEN_ON, RTX_BEN_ENABLED} :
           RtxBoostStore(state)
    \/ \E in \in EnvRtx : RtxDisableWork(in)
    \/ \E client \in {"THERMAL_DAEMON_VOTER", "OTHER_VOTER"},
          enabled \in BOOLEAN, val \in VoteValues :
           VoteTxIcl(client, enabled, val)

Spec ==
    Init /\ [][Next]_vars

(***************************************************************************)
(* SpecSession: the receive session and its delayed tasks, RTX unused.     *)
(***************************************************************************)
NextSession ==
    \/ \E irq_src \in {{"VRECT"}} : IrqThread(irq_src, FALSE)
    \/ NotifierCb
    \/ \E dc_in \in {0, 1}, chip \in EnvChips : NotifierWorkBegin(dc_in, chip)
    \/ \E dc_in \in {0, 1}, chip \in EnvChips : NotifierWorkEnd(dc_in, chip)
    \/ \E res \in {0, -EIO} : DcinWorkBegin(res)
    \/ DcinWorkEnd
    \/ ShowAlignment
    \/ AlignWorkBegin
    \/ \E chip \in EnvChips, f \in EnvOpFreq :
           AlignWorkEnd([chip |-> chip, iout |-> 0, op_freq |-> f, div0 |-> "oops"])
    \/ IclRampAlarmFire
    \/ IclRampAlarmCb
    \/ \E rc \in BOOLEAN, chip \in EnvChips : IclRampWork(rc, chip)
    \/ \E again \in BOOLEAN : DcinPonWork(again)

SpecSession ==
    Init /\ [][NextSession]_vars

(***************************************************************************)
(* Properties of reverse power against detection (Spec).                   *)
(***************************************************************************)
\* C1: the receive session being online and reverse power being enabled
\* (ben_state other than RTX_BEN_DISABLED) never hold at the same time.
C1_OnlineExcludesRtx ==
    ~(charger.online /\ charger.ben_state # RTX_BEN_DISABLED)

\* The admission checks of p9382_set_rtx(enable) refuse in this state.
EnableRefused ==
    \/ charger.online
    \/ charger.tx_icl_votable /\ get_effective_result(TRUE, tx_icl) = 0

WlcDcinEn ==
    ClientId(DcinEnClients, "WLC_VOTER")

\* C2 (as amended): an enable through p9382_set_rtx while the session is
\* online or TX_ICL resolves to 0 casts no DISABLE_DCIN_EN vote, drives no
\* output, sends no transmit-mode command and leaves ben_state as it was.
C2_RefusedEnableChangesNothing ==
    [][(call'.op = "rtx_store_1" /\ EnableRefused)
          => /\ call'.trace = <<>>
             /\ dcin_en' = dcin_en
             /\ gpio' = gpio
             /\ charger'.ben_state = charger.ben_state]_vars

\* C2 (as stated): ... and leaves ben_state at RTX_BEN_DISABLED.
C2_RefusedEnableLeavesDisabled ==
    [][(call'.op = "rtx_store_1" /\ EnableRefused)
          => /\ call'.trace = <<>>
             /\ dcin_en' = dcin_en
             /\ gpio' = gpio
             /\ charger'.ben_state = RTX_BEN_DISABLED]_vars

\* An enable has been refused while the session is online.
C2_RefusedWhileOnline ==
    /\ call.op = "rtx_store_1"
    /\ call.trace = <<>>
    /\ charger.online
    /\ charger.ben_state = RTX_BEN_DISABLED

\* C3: a refused enable hands rtx_store an error, and ben_state, rtx_err
\* and rtx_csp stay as they were.
C3_RefusedEnableIsError ==
    [][(call'.op = "rtx_store_1" /\ EnableRefused)
          => /\ call'.ret < 0
             /\ charger'.ben_state = charger.ben_state
             /\ charger'.rtx_err = charger.rtx_err
             /\ charger'.rtx_csp = charger.rtx_csp]_vars

\* C10: p9382_set_rtx(disable) sends transmit-mode off unless rtx_err is
\* RTX_TX_CONFLICT, then deasserts the boost and switch outputs with
\* ben_state RTX_BEN_DISABLED, then releases the DISABLE_DCIN_EN vote,
\* whatever the earlier steps returned.
C10_DisableTeardown ==
    [][call'.op = "rtx_store_0"
          => /\ call'.trace =
                   (IF charger.rtx_err = "RTX_TX_CONFLICT" THEN <<>>
                    ELSE <<"tx_mode_off">>) \o <<"ben_disabled", "unvote_dcin_en">>
             /\ charger'.ben_state = RTX_BEN_DISABLED
             /\ gpio'.ben = 0
             /\ gpio'.sw = 0
             /\ ~dcin_en'.votes[WlcDcinEn].enabled]_vars

(***************************************************************************)
(* Properties of the session's delayed tasks (SpecSession).                *)
(***************************************************************************)
SessionTasks ==
    {"align_work", "icl_ramp_alarm", "icl_ramp_work", "dcin_work"}

WlcDcIcl ==
    ClientId(DcIclClients, "WLC_VOTER")

AiclDcIcl ==
    ClientId(DcIclClients, "DCIN_AICL_VOTER")

\* C7: once p9221_set_offline has completed, no session task (align_work,
\* the ICL ramp alarm, icl_ramp_work, dcin_work) is pending: a step that
\* ends offline leaves none pending that the offline session did not
\* already have, unless it is the alignment attribute being read.
C7_NoTaskPendingAfterOffline ==
    [][(~charger'.online /\ ~ShowAlignment)
          => (pending' \cap SessionTasks)
                 \subseteq (IF charger.online THEN {}
                            ELSE pending \cap SessionTasks)]_vars

\* C8: while the session stays offline no task sets the alignment score to
\* a value >= 0, sets icl_ramp, or casts a WLC or AICL vote on DC_ICL other
\* than the offline default.
C8_NoStaleSessionWrite ==
    [][(~charger.online /\ ~charger'.online)
          => /\ charger'.alignment >= 0 => charger'.alignment = charger.alignment
             /\ charger'.icl_ramp => charger.icl_ramp
             /\ \/ dc_icl'.votes[WlcDcIcl] = dc_icl.votes[WlcDcIcl]
                \/ dc_icl'.votes[WlcDcIcl]
                       = [enabled |-> TRUE, value |-> P9221_DC_ICL_BPP_UA]
             /\ dc_icl'.votes[AiclDcIcl] = dc_icl.votes[AiclDcIcl]]_vars

(***************************************************************************)
(* SpecLive: the rtx store, the votes on TX_ICL and rtx_disable_work; the  *)
(* workqueue runs a queued rtx_disable_work eventually.                    *)
(***************************************************************************)
RunRtxDisableWork ==
    \E in \in EnvRtx : RtxDisableWork(in)

NextLive ==
    \/ \E buf0 \in {"0", "1"}, in \in EnvRtx : RtxStore(buf0, in)
    \/ \E client \in {"THERMAL_DAEMON_VOTER", "OTHER_VOTER"},
          enabled \in BOOLEAN, val \in VoteValues :
           VoteTxIcl(client, enabled, val)
    \/ RunRtxDisableWork

SpecLive ==
    Init /\ [][NextLive]_vars /\ WF_vars(RunRtxDisableWork)

\* C9: whenever TX_ICL resolves to 0 while RTX is enabled, whichever client
\* cast the zero vote, RTX is eventually disabled with rtx_err
\* RTX_OVER_TEMP.
C9_ZeroLimitDisablesOverTemp ==
    (get_effective_result(TRUE, tx_icl) = 0 /\ charger.ben_state # RTX_BEN_DISABLED)
        ~> (charger.ben_state = RTX_BEN_DISABLED /\ charger.rtx_err = "RTX_OVER_TEMP")

(***************************************************************************)
(* SpecVote: votes cast on the two minimum-rule votables by every client.  *)
(***************************************************************************)
\* A vote on DC_ICL by the charger driver or a policy source; the callback
\* of DC_ICL belongs to the charger driver.
VoteDcIcl(client, enabled, val) ==
    /\ Ends(vote_dc_icl(World, client, enabled, val))
    /\ pc' = pc

NextVote ==
    \/ \E i \in DOMAIN TxIclClients, enabled \in BOOLEAN, val \in VoteValues :
           VoteTxIcl(TxIclClients[i], enabled, val)
    \/ \E i \in DOMAIN DcIclClients, enabled \in BOOLEAN, val \in VoteValues :
           VoteDcIcl(DcIclClients[i], enabled, val)

SpecVote ==
    Init /\ [][NextVote]_vars

MinOf(S) ==
    CHOOSE m \in S : \A x \in S : m <= x

MinRule(v) ==
    v.effective_result =
        IF ActiveVotes(v) = {} THEN -EINVAL
        ELSE MinOf({v.votes[i].value : i \in ActiveVotes(v)})

\* C6: after every sequence of casts on DC_ICL and TX_ICL the effective
\* value is the minimum of the active votes, and none (-EINVAL, which is
\* not 0) when no vote is active.
C6_EffectiveIsMinimum ==
    /\ MinRule(dc_icl)
    /\ MinRule(tx_icl)
    /\ ActiveVotes(tx_icl) = {} => get_effective_result(TRUE, tx_icl) # 0

\* Every vote on TX_ICL has been withdrawn and the store resolves to none.
C6_AllVotesWithdrawn ==
    /\ tx_icl.voted_on
    /\ ActiveVotes(tx_icl) = {}
    /\ get_effective_result(TRUE, tx_icl) = -EINVAL

(***************************************************************************)
(* SpecOver: p9221_over_handle, one step up to the poll loop and one step  *)
(* per iteration of it (each iteration sleeps), while "dc" notifications   *)
(* bring an extended-power session online and offline.                     *)
(***************************************************************************)
OcpDcIcl ==
    ClientId(DcIclClients, "OCP_VOTER")

p9221_send_eop(o, reason) ==
    [o EXCEPT !.eops = Append(@, reason), !.pc = "done"]

\* The bits that send an interrupt to p9221_over_handle.
P9221R5_STAT_LIMIT_MASK ==
    {"OVV", "OVT", "OVC", "UV"}

\* A p9221_over_handle that looks at the over-temperature bit first.
over_handle_begin_ovt_first(w, irq_src) ==
    LET o == [OverIdle EXCEPT !.first = irq_src, !.irq_src = irq_src]
        icl == get_effective_result(TRUE, w.dc_icl)
        backoff == w.c.dc_icl_votable /\ icl >= 0 /\ icl > OVC_BACKOFF_LIMIT
    IN  IF "OVT" \in irq_src
        THEN [w |-> w, o |-> p9221_send_eop(o, "P9221_EOP_OVER_TEMP")]
        ELSE IF "OVV" \in irq_src
        THEN [w |-> w, o |-> p9221_send_eop(o, "P9221_EOP_OVER_VOLT")]
        ELSE IF "UV" \in irq_src /\ "OVC" \notin irq_src
        THEN [w |-> w, o |-> [o EXCEPT !.pc = "done"]]
        ELSE [w |-> IF backoff
                    THEN vote_dc_icl(w, "OCP_VOTER", TRUE, icl - OVC_BACKOFF_AMOUNT)
                    ELSE w,
              o |-> [o EXCEPT !.pc = "poll", !.voted = backoff]]

\* A p9221_over_handle that backs off at OVC_BACKOFF_LIMIT as well.
over_handle_begin_at_limit(w, irq_src) ==
    LET o == [OverIdle EXCEPT !.first = irq_src, !.irq_src = irq_src]
        icl == get_effective_result(TRUE, w.dc_icl)
        backoff == w.c.dc_icl_votable /\ icl >= 0 /\ icl >= OVC_BACKOFF_LIMIT
    IN  IF "OVV" \in irq_src
        THEN [w |-> w, o |-> p9221_send_eop(o, "P9221_EOP_OVER_VOLT")]
        ELSE IF "OVT" \in irq_src
        THEN [w |-> w, o |-> p9221_send_eop(o, "P9221_EOP_OVER_TEMP")]
        ELSE IF "UV" \in irq_src /\ "OVC" \notin irq_src
        THEN [w |-> w, o |-> [o EXCEPT !.pc = "done"]]
        ELSE [w |-> IF backoff
                    THEN vote_dc_icl(w, "OCP_VOTER", TRUE, icl - OVC_BACKOFF_AMOUNT)
                    ELSE w,
              o |-> [o EXCEPT !.pc = "poll", !.voted = backoff]]

\* A p9221_over_handle that polls on under-voltage alone.
over_handle_begin_uv_polls(w, irq_src) ==
    LET o == [OverIdle EXCEPT !.first = irq_src, !.irq_src = irq_src]
        icl == get_effective_result(TRUE, w.dc_icl)
        backoff == w.c.dc_icl_votable /\ icl >= 0 /\ icl > OVC_BACKOFF_LIMIT
    IN  IF "OVV" \in irq_src
        THEN [w |-> w, o |-> p9221_send_eop(o, "P9221_EOP_OVER_VOLT")]
        ELSE IF "OVT" \in irq_src
        THEN [w |-> w, o |-> p9221_send_eop(o, "P9221_EOP_OVER_TEMP")]
        ELSE [w |-> IF backoff
                    THEN vote_dc_icl(w, "OCP_VOTER", TRUE, icl - OVC_BACKOFF_AMOUNT)
                    ELSE w,
              o |-> [o EXCEPT !.pc = "poll", !.voted = backoff]]

\* p9221_over_handle from its entry to the first iteration of the loop.
over_handle_begin(w, irq_src) ==
    LET o == [OverIdle EXCEPT !.first = irq_src, !.irq_src = irq_src]
        icl == get_effective_result(TRUE, w.dc_icl)
        backoff == w.c.dc_icl_votable /\ icl >= 0 /\ icl > OVC_BACKOFF_LIMIT
    IN  IF "OVV" \in irq_src
        THEN [w |-> w, o |-> p9221_send_eop(o, "P9221_EOP_OVER_VOLT")]
        ELSE IF "OVT" \in irq_src
        THEN [w |-> w, o |-> p9221_send_eop(o, "P9221_EOP_OVER_TEMP")]
        ELSE IF "UV" \in irq_src /\ "OVC" \notin irq_src
        THEN [w |-> w, o |-> [o EXCEPT !.pc = "done"]]
        ELSE [w |-> IF backoff
                    THEN vote_dc_icl(w, "OCP_VOTER", TRUE, icl - OVC_BACKOFF_AMOUNT)
                    ELSE w,
              o |-> [o EXCEPT !.pc = "poll", !.voted = backoff]]

\* A loop exit that needs more than OVC_LIMIT samples above the threshold.
over_handle_next_above_limit(o) ==
    LET o1 == [o EXCEPT !.i = @ + 1]
    IN  IF o1.i < P9221R5_OVER_CHECK_NUM THEN o1
        ELSE IF o1.ovc_count <= OVC_LIMIT THEN [o1 EXCEPT !.pc = "done"]
        ELSE p9221_send_eop(o1, "P9221_EOP_OVER_CURRENT")

\* A loop exit that sends the EOP whatever the samples were.
over_handle_next_always_eop(o) ==
    LET o1 == [o EXCEPT !.i = @ + 1]
    IN  IF o1.i < P9221R5_OVER_CHECK_NUM THEN o1
        ELSE p9221_send_eop(o1, "P9221_EOP_OVER_CURRENT")

\* The end of an iteration: the next one, or what follows the loop.
over_handle_next(o) ==
    LET o1 == [o EXCEPT !.i = @ + 1]
    IN  IF o1.i < P9221R5_OVER_CHECK_NUM THEN o1
        ELSE IF o1.ovc_count < OVC_LIMIT THEN [o1 EXCEPT !.pc = "done"]
        ELSE p9221_send_eop(o1, "P9221_EOP_OVER_CURRENT")

\* An iteration that goes on when the status shows the bit cleared.
over_handle_poll_no_exit(o, in) ==
    LET o1 == [o EXCEPT !.clears = @ + 1,
                        !.cleared = IF in.clear_ret = 0
                                    THEN @ \cup (o.irq_src \cap P9221R5_STAT_LIMIT_MASK)
                                    ELSE @]
        o2 == [o1 EXCEPT !.reads = @ + 1]
        o3 == IF P9221_MA_TO_UA(in.iout) > OVC_THRESHOLD
              THEN [o2 EXCEPT !.ovc_count = @ + 1] ELSE o2
    IN  IF in.clear_ret # 0 THEN over_handle_next(o1)
        ELSE IF in.iout < 0 THEN over_handle_next(o2)
        ELSE IF in.status_ret # 0 THEN over_handle_next(o3)
        ELSE over_handle_next([o3 EXCEPT !.irq_src = in.status])

\* One iteration.  in.clear_ret is the result of p9221_clear_interrupts
\* (called with the limit bits of irq_src, kept in `cleared`),
\* in.iout the output current in mA (-1: the read fails), in.status_ret
\* and in.status the read of the status register.
over_handle_poll(o, in) ==
    LET o1 == [o EXCEPT !.clears = @ + 1,
                        !.cleared = IF in.clear_ret = 0
                                    THEN @ \cup (o.irq_src \cap P9221R5_STAT_LIMIT_MASK)
                                    ELSE @]
        o2 == [o1 EXCEPT !.reads = @ + 1]
        o3 == IF P9221_MA_TO_UA(in.iout) > OVC_THRESHOLD
              THEN [o2 EXCEPT !.ovc_count = @ + 1] ELSE o2
    IN  IF in.clear_ret # 0 THEN over_handle_next(o1)
        ELSE IF in.iout < 0 THEN over_handle_next(o2)
        ELSE IF in.status_ret # 0 THEN over_handle_next(o3)
        ELSE IF "OVC" \notin in.status
             THEN [o3 EXCEPT !.irq_src = in.status, !.pc = "done"]
        ELSE over_handle_next([o3 EXCEPT !.irq_src = in.status])

\* p9221_irq_thread with a limit bit raised enters p9221_over_handle.
Enters(r) ==
    Store(r.w) /\ over' = r.o /\ call' = NoCall

OverHandleBegin(irq_src) ==
    /\ charger.ben_state = RTX_BEN_DISABLED
    /\ over.pc # "poll"
    /\ Enters(over_handle_begin(World, irq_src))
    /\ pc' = pc

OverHandlePoll(in) ==
    /\ over.pc = "poll"
    /\ over' = over_handle_poll(over, in)
    /\ UNCHANGED <<charger, registry, dc_icl, tx_icl, dcin_en, gpio, pending,
                   pc, call, published, fault, fod, poll, tx, timer>>

\* Limit bits the interrupt can carry.
EnvOverIrq ==
    {{"OVC"}, {"UV"}, {"OVC", "UV"}, {"OVV"}, {"OVT"}, {"OVV", "OVT"},
     {"OVV", "OVC"}, {"OVT", "OVC"}}

\* Output currents in mA on either side of OVC_THRESHOLD, and a failed read.
EnvIout ==
    {-1, OVC_THRESHOLD \div 1000, OVC_THRESHOLD \div 1000 + 1}

NextOver ==
    \/ NotifierCb
    \/ \E dc_in \in {0, 1}, chip \in {EppChip, EppOtherChip} :
           NotifierWorkBegin(dc_in, chip)
    \/ \E irq_src \in EnvOverIrq : OverHandleBegin(irq_src)
    \/ \E clear_ret \in {0, -EIO}, iout \in EnvIout, status_ret \in {0, -EIO},
          status \in {{}, {"OVC"}} :
           OverHandlePoll([clear_ret |-> clear_ret, iout |-> iout,
                           status_ret |-> status_ret, status |-> status])

SpecOver ==
    Init /\ [][NextOver]_vars

\* C4: when p9221_over_handle has gone through all P9221R5_OVER_CHECK_NUM
\* polls with the over-current bit set in every status it read, and at
\* least OVC_LIMIT samples were above OVC_THRESHOLD, it has called
\* p9221_send_eop exactly once, with the over-current reason.
C4_OverCurrentEscalates ==
    (/\ over.pc = "done"
     /\ over.first \cap {"OVV", "OVT"} = {}
     /\ over.i = P9221R5_OVER_CHECK_NUM
     /\ over.ovc_count >= OVC_LIMIT)
        => over.eops = <<"P9221_EOP_OVER_CURRENT">>

\* Three polls, exactly one sample above the threshold, one EOP.
C4_OneSampleOfThree ==
    /\ over.pc = "done"
    /\ over.i = P9221R5_OVER_CHECK_NUM
    /\ over.reads = P9221R5_OVER_CHECK_NUM
    /\ over.ovc_count = 1
    /\ over.eops = <<"P9221_EOP_OVER_CURRENT">>

\* C5: with the over-voltage or over-temperature bit raised,
\* p9221_over_handle sends one EOP at once, over-voltage first, and casts
\* no DC_ICL vote, clears no interrupt and reads no output current.
C5_OverVoltTempImmediateEop ==
    [][(over'.pc # "idle" /\ over'.first \cap {"OVV", "OVT"} # {} /\ over' # over)
          => /\ over'.pc = "done"
             /\ over'.eops = <<IF "OVV" \in over'.first
                               THEN "P9221_EOP_OVER_VOLT"
                               ELSE "P9221_EOP_OVER_TEMP">>
             /\ dc_icl' = dc_icl
             /\ ~over'.voted
             /\ over'.clears = 0
             /\ over'.reads = 0]_vars

\* Both bits were raised and the EOP carries the over-voltage reason.
C5_BothBitsOverVolt ==
    /\ over.pc = "done"
    /\ over.first = {"OVV", "OVT"}
    /\ over.eops = <<"P9221_EOP_OVER_VOLT">>

(***************************************************************************)
(* More properties of reverse power against detection (Spec).              *)
(***************************************************************************)
\* C11: whenever the boost and switch outputs are asserted (ben_state is
\* RTX_BEN_ON) and the DISABLE_DCIN_EN store exists, this driver's vote on
\* it is active.
C11_BoostOnlyUnderDcinVote ==
    (charger.ben_state = RTX_BEN_ON /\ "DISABLE_DCIN_EN" \in registry)
        => dcin_en.votes[WlcDcinEn].enabled

(***************************************************************************)
(* SpecAlign: the alignment engine.  The platform data (breakpoints,       *)
(* hysteresis, scalar) is drawn at probe; "dc" notifications bring the     *)
(* session online and offline, the alignment attribute is read, and        *)
(* align_work runs against the operating frequencies and output currents   *)
(* below.                                                                  *)
(***************************************************************************)
\* A pad that answers 0 for its manufacturer code.
NoMfgChip ==
    [sys_mode |-> "WPC_EXTD", vout_mv |-> 9000, mfg |-> 0, np |-> "ge11W",
     fod_io |-> <<>>, status_ret |-> 0, vout |-> TRUE, vout_io |-> <<>>]

\* Ascending breakpoint arrays in Hz with two, three and four entries.
EnvAlignFreq ==
    {<<100000, 120000>>, <<100000, 120000, 140000>>,
     <<100000, 120000, 140000, 160000>>}

EnvAlignHysteresis ==
    {0, 8000}

\* Operating frequencies in kHz: below, on and between the breakpoints,
\* above them, and a failed read.
EnvAlignOpFreq ==
    {-1, 95, 100, 115, 125, 145, 165}

InitAlign ==
    \E freqs \in EnvAlignFreq, hyst \in EnvAlignHysteresis :
        InitWith([ProbeWorld(3, 4, {"DC_ICL", "DISABLE_DCIN_EN"}) EXCEPT
                     !.c.alignment_freq = freqs,
                     !.c.alignment_hysteresis = hyst],
                 {"DC_ICL", "DISABLE_DCIN_EN"})

NextAlign ==
    \/ NotifierCb
    \/ \E dc_in \in {0, 1} : NotifierWorkBegin(dc_in, EppChip)
    \/ ShowAlignment
    \/ AlignWorkBegin
    \/ \E chip \in {BppChip, EppChip, NoMfgChip}, f \in EnvAlignOpFreq,
          d \in {"oops", "zero"} :
           AlignWorkEnd([chip |-> chip, iout |-> 0, op_freq |-> f, div0 |-> d])

SpecAlign ==
    InitAlign /\ [][NextAlign]_vars

\* C12: when a run of p9221_align_work publishes a score (schedules the
\* uevent and moves alignment_last), the score is not the one it published
\* last in this session.
C12_NeverPublishedTwice ==
    [][(pc.align = "run" /\ pc'.align = "idle"
        /\ charger'.alignment_last # charger.alignment_last)
          => charger'.alignment_last # published]_vars

(***************************************************************************)
(* SpecFod: the FOD table.  The device tree gives a BPP table and possibly *)
(* an EPP table; VRECT interrupts and "dc" notifications run               *)
(* notifier_work, whose p9221_set_online and p9221_notifier_check_dc write *)
(* the table against the answers below.                                    *)
(***************************************************************************)
FodBpp ==
    <<1, 2>>

FodEpp ==
    <<3, 4>>

\* One attempt: the write fails, the read-back fails, or a table is read.
EnvFodAnswer ==
    {[ret |-> "werr", data |-> <<>>], [ret |-> "rerr", data |-> <<>>],
     [ret |-> "ok", data |-> FodBpp], [ret |-> "ok", data |-> FodEpp],
     [ret |-> "ok", data |-> <<0, 0>>]}

\* The answers to the first attempts; the last one repeats.
EnvFodIo ==
    UNION {[1..n -> EnvFodAnswer] : n \in 1..3}

InitFod ==
    \E epp \in {<<>>, FodEpp} :
        InitWith([ProbeWorld(3, 4, {"DC_ICL", "DISABLE_DCIN_EN"}) EXCEPT
                     !.c.fod = FodBpp, !.c.fod_epp = epp],
                 {"DC_ICL", "DISABLE_DCIN_EN"})

NextFod ==
    \/ IrqThread({"VRECT"}, FALSE)
    \/ NotifierCb
    \/ \E dc_in \in {0, 1}, chip \in {BppChip, EppChip}, io \in EnvFodIo :
           NotifierWorkBegin(dc_in, [chip EXCEPT !.fod_io = io])
    \/ \E dc_in \in {0, 1}, chip \in {BppChip, EppChip}, io \in EnvFodIo :
           NotifierWorkEnd(dc_in, [chip EXCEPT !.fod_io = io])

SpecFod ==
    InitFod /\ [][NextFod]_vars

\* C13: p9221_write_fod makes at most 3 attempts, and when none of them
\* verified the handler that called it does not go on as after a verified
\* write: it does not leave the session online.
C13_UnverifiedFodIsReported ==
    [][fod'.outcome = "not_set" /\ fod'.writes > 0
          => fod'.writes <= 3 /\ ~charger'.online]_vars

(***************************************************************************)
(* More properties of the protection handler (SpecOver).                   *)
(***************************************************************************)
\* C14: when p9221_over_handle has backed the limit off and finished for an
\* over-current status and the same status is delivered to it again, the
\* OCP voter's vote on DC_ICL stays what the first delivery left.
C14_SecondDeliveryKeepsOcpVote ==
    [][(over.pc = "done" /\ over' # over /\ over.voted
        /\ "OVC" \in over.first /\ over'.first = over.first)
          => dc_icl'.votes[OcpDcIcl] = dc_icl.votes[OcpDcIcl]]_vars

(***************************************************************************)
(* SpecRetry: the retry loops on a chip older than the P9382A, with a BPP  *)
(* FOD table.  VRECT interrupts and "dc" notifications run notifier_work   *)
(* (FOD write, negotiated-power re-check, BPP VOUT) and limit interrupts   *)
(* run p9221_over_handle, against the answers below.                       *)
(***************************************************************************)
\* FOD read-backs: right at once, right at the third attempt, never right.
EnvRetryFodIo ==
    {<<[ret |-> "ok", data |-> FodBpp]>>,
     <<[ret |-> "ok", data |-> <<0, 0>>], [ret |-> "ok", data |-> <<0, 0>>],
       [ret |-> "ok", data |-> FodBpp]>>,
     <<[ret |-> "ok", data |-> <<0, 0>>]>>}

\* VOUT: 5000 mV at once, never, and a failed write.
EnvRetryVoutIo ==
    {<<[set_ret |-> 0, get_ret |-> 0, vout_mv |-> 5000]>>,
     <<[set_ret |-> 0, get_ret |-> 0, vout_mv |-> 9000]>>,
     <<[set_ret |-> -EIO, get_ret |-> 0, vout_mv |-> 0]>>}

EnvRetryChips ==
    {[sys_mode |-> "WPC_BASIC", vout_mv |-> 5000, mfg |-> mfg, np |-> np,
      fod_io |-> fio, status_ret |-> 0, vout |-> vout, vout_io |-> vio] :
        mfg \in {1, P9221_PTMC_EPP_TX_1912}, np \in {"err", "lt10W", "ge11W"},
        fio \in EnvRetryFodIo, vout \in BOOLEAN, vio \in EnvRetryVoutIo}

InitRetry ==
    InitWith([ProbeWorld(3, 4, {"DC_ICL", "DISABLE_DCIN_EN"}) EXCEPT
                 !.c.chip_p9382 = FALSE, !.c.fod = FodBpp],
             {"DC_ICL", "DISABLE_DCIN_EN"})

NextRetry ==
    \/ IrqThread({"VRECT"}, FALSE)
    \/ NotifierCb
    \/ \E dc_in \in {0, 1}, chip \in EnvRetryChips : NotifierWorkBegin(dc_in, chip)
    \/ \E dc_in \in {0, 1}, chip \in EnvRetryChips : NotifierWorkEnd(dc_in, chip)
    \/ OverHandleBegin({"OVC"})
    \/ \E iout \in EnvIout, status \in {{}, {"OVC"}} :
           OverHandlePoll([clear_ret |-> 0, iout |-> iout,
                           status_ret |-> 0, status |-> status])

SpecRetry ==
    InitRetry /\ [][NextRetry]_vars

\* C15: every retry has a fixed budget: p9221_write_fod writes at most 3
\* times, p9221_over_handle polls at most P9221R5_OVER_CHECK_NUM times,
\* p9221_set_bpp_vout sets VOUT at most 10 times, and the negotiated-power
\* re-check requeues notifier_work at most once per interrupt or "dc"
\* notification, whatever the chip answers.
C15_RetriesBounded ==
    /\ fod.writes <= 3
    /\ over.i <= P9221R5_OVER_CHECK_NUM
    /\ over.clears <= P9221R5_OVER_CHECK_NUM
    /\ poll.vout <= 10
    /\ poll.np <= 1

\* The re-check requeued notifier_work, that run is over, neither 10 W nor
\* the VOUT bit was seen, and nothing is queued any more.
C15_PollGaveUp ==
    /\ poll.np = 1
    /\ charger.check_np
    /\ "notifier_work" \notin pending
    /\ pc.notifier = "idle"

(***************************************************************************)
(* SpecIrq: the interrupt thread as a whole against the rtx and rtx_boost  *)
(* stores, which change the mode it routes by, and notifier_work.          *)
(***************************************************************************)
\* Interrupt statuses of either mode, and an empty one.
EnvIrqSrc ==
    {{}, {"VRECT"}, {"PPRCVD"}, {"TXCONFLICT"}, {"CSP"}, {"VRECT", "CSP"}}

EnvIrqThread ==
    {[resume_complete |-> rc, read_ret |-> rr, irq_src |-> src, clear_ret |-> cr,
      phone |-> FALSE,
      rtx |-> [mode_ret |-> 0, status_ret |-> 0, status |-> src, csp |-> 1,
               rtx |-> RtxOk]] :
        rc \in BOOLEAN, rr \in {0, -EIO}, src \in EnvIrqSrc, cr \in {0, -EIO}}

NextIrq ==
    \/ \E in \in EnvIrqThread : IrqThreadRun(in)
    \/ \E buf0 \in {"0", "1"} : RtxStore(buf0, RtxOk)
    \/ \E state \in {RTX_BEN_DISABLED, RTX_BEN_ON, RTX_BEN_ENABLED} :
           RtxBoostStore(state)
    \/ \E dc_in \in {0, 1} : NotifierWorkBegin(dc_in, BppChip)
    \/ \E dc_in \in {0, 1} : NotifierWorkEnd(dc_in, BppChip)

SpecIrq ==
    Init /\ [][NextIrq]_vars

\* The trace holds the event.
Has(trace, e) ==
    \E n \in DOMAIN trace : trace[n] = e

\* C16: a run of p9221_irq_thread hands the status it read to
\* rtx_irq_handler when ben_state is not RTX_BEN_DISABLED and to the
\* receive-side handlers otherwise, never to both, and to neither when it
\* was not resumed, the read failed, the status was zero or the clear
\* failed.
C16_StatusRoutedOnce ==
    [][call'.op = "irq_thread"
          => /\ ~(Has(call'.trace, "rtx_irq_handler")
                  /\ Has(call'.trace, "p9221_irq_handler"))
             /\ Has(call'.trace, "rtx_irq_handler")
                    <=> (Has(call'.trace, "cleared")
                         /\ charger.ben_state # RTX_BEN_DISABLED)
             /\ Has(call'.trace, "p9221_irq_handler")
                    <=> (Has(call'.trace, "cleared")
                         /\ charger.ben_state = RTX_BEN_DISABLED)
             /\ Has(call'.trace, "cleared")
                    <=> ~(\/ Has(call'.trace, "not_resumed")
                          \/ Has(call'.trace, "read_failed")
                          \/ Has(call'.trace, "no_status")
                          \/ Has(call'.trace, "clear_failed"))]_vars

\* A TX-conflict status went to rtx_irq_handler, which switched RTX off,
\* and not to the receive side.
C16_ConflictToRtxOnly ==
    /\ call.op = "irq_thread"
    /\ Has(call.trace, "rtx_irq_handler")
    /\ Has(call.trace, "ben_disabled")
    /\ ~Has(call.trace, "p9221_irq_handler")
    /\ charger.ben_state = RTX_BEN_DISABLED

(***************************************************************************)
(* More properties of the session's delayed tasks (SpecSession).           *)
(***************************************************************************)
\* C17: the interrupt thread and the delayed tasks do not run concurrently
\* against the session state: while p9221_align_work is between its online
\* check and its end, no other task writes online, alignment, icl_ramp or
\* ben_state.
C17_NoWriteDuringAlignWork ==
    [][(pc.align = "run" /\ pc'.align = "run")
          => /\ charger'.online = charger.online
             /\ charger'.alignment = charger.alignment
             /\ charger'.icl_ramp = charger.icl_ramp
             /\ charger'.ben_state = charger.ben_state]_vars

(***************************************************************************)
(* More properties of the alignment engine (SpecAlign).                    *)
(***************************************************************************)
\* The scores of the buckets of n breakpoints, n > 2.
BucketScores(n) ==
    {(WLC_ALIGNMENT_MAX * b) \div (n - 2) : b \in 0..(n - 2)}

\* C18: with every ascending breakpoint array of at least two entries
\* p9221_align_work never divides by zero, and the score it leaves is -1 or
\* the linear score of a bucket, 0 for the lowest and 100 for the highest.
C18_ScoreLinearNoDivByZero ==
    /\ "div0" \notin fault
    /\ Len(charger.alignment_freq) > 2
          => charger.alignment \in {-1} \cup BucketScores(Len(charger.alignment_freq))

\* C19: once the manufacturer-code gate has failed for the session that is
\* online, the alignment score stays -1 and align_work is not queued.
C19_FailedGateStaysSilent ==
    (charger.online /\ charger.alignment_capable = "ALIGN_MFG_FAILED")
        => (charger.alignment = -1 /\ "align_work" \notin pending)

(***************************************************************************)
(* SpecQuery: the readers of the two current-limit votables.  The rtx      *)
(* store and the CURRENT_MAX property are used while votes are cast and    *)
(* withdrawn, on a board where TX_ICL could or could not be created and    *)
(* DC_ICL was or was not found at probe.                                   *)
(***************************************************************************)
\* A CURRENT_MAX that reports the effective result whatever its sign.
get_property_current_max_unchecked(w) ==
    IF ~w.c.dc_icl_votable THEN [w EXCEPT !.ret = -EAGAIN]
    ELSE [Ev(w, [intval |-> IF get_effective_result(TRUE, w.dc_icl) < 0 THEN 0
                            ELSE get_effective_result(TRUE, w.dc_icl)])
             EXCEPT !.ret = 0]

\* p9221_get_property(POWER_SUPPLY_PROP_CURRENT_MAX): ret is returned, and
\* the trace holds val->intval when it is written.
get_property_current_max(w) ==
    IF ~w.c.dc_icl_votable THEN [w EXCEPT !.ret = -EAGAIN]
    ELSE IF get_effective_result(TRUE, w.dc_icl) < 0
    THEN [w EXCEPT !.ret = get_effective_result(TRUE, w.dc_icl)]
    ELSE [Ev(w, [intval |-> get_effective_result(TRUE, w.dc_icl)])
             EXCEPT !.ret = 0]

GetCurrentMax ==
    /\ Returns(get_property_current_max(World), "get_current_max")
    /\ pc' = pc

\* Probe on the wired board; create_votable("TX_ICL") succeeds or fails.
ProbeWorldTxIcl(created, reg) ==
    IF created THEN ProbeWorld(3, 4, reg)
    ELSE [ProbeWorld(3, 4, reg) EXCEPT
             !.c.tx_icl_votable = FALSE,
             !.tx_icl = create_votable(TxIclRule, TxIclClients)]

InitQuery ==
    \E created \in BOOLEAN, reg \in {{}, {"DC_ICL", "DISABLE_DCIN_EN"}} :
        InitWith(ProbeWorldTxIcl(created, reg), reg)

NextQuery ==
    \/ \E buf0 \in {"0", "1"}, in \in EnvRtx : RtxStore(buf0, in)
    \/ \E client \in {"RTX_VOTER", "THERMAL_DAEMON_VOTER"},
          enabled \in BOOLEAN, val \in VoteValues :
           VoteTxIcl(client, enabled, val)
    \/ \E client \in {"WLC_VOTER", "OCP_VOTER"},
          enabled \in BOOLEAN, val \in VoteValues :
           "DC_ICL" \in registry /\ VoteDcIcl(client, enabled, val)
    \/ GetCurrentMax

SpecQuery ==
    InitQuery /\ [][NextQuery]_vars

\* Some active vote of the store has the value 0.
ZeroVoted(v) ==
    \E i \in ActiveVotes(v) : v.votes[i].value = 0

\* C20: an enable through p9382_set_rtx is refused only when the session
\* is online or an active vote on an existing TX_ICL is 0, and CURRENT_MAX
\* returns the minimum of the active DC_ICL votes with success, or an error
\* and no value when DC_ICL is missing or has no active vote.
C20_NoVoteIsNotZero ==
    [][/\ (call'.op = "rtx_store_1" /\ call'.trace = <<>>)
             => (charger.online \/ (charger.tx_icl_votable /\ ZeroVoted(tx_icl)))
       /\ (call'.op = "get_current_max")
             => IF charger.dc_icl_votable /\ ActiveVotes(dc_icl) # {}
                THEN /\ call'.ret = 0
                     /\ call'.trace =
                            <<[intval |-> MinOf({dc_icl.votes[i].value :
                                                   i \in ActiveVotes(dc_icl)})]>>
                ELSE /\ call'.ret < 0
                     /\ call'.trace = <<>>]_vars

\* CURRENT_MAX was read while DC_ICL existed and every vote was withdrawn.
C20_QueriedWithoutVotes ==
    /\ call.op = "get_current_max"
    /\ call.ret = -EINVAL
    /\ charger.dc_icl_votable
    /\ dc_icl.voted_on
    /\ ActiveVotes(dc_icl) = {}

(***************************************************************************)
(* More properties of reverse power (Spec): the two failures inside an     *)
(* admitted p9382_set_rtx(enable), taken over every outcome of its calls.  *)
(***************************************************************************)
\* p9382_set_rtx(enable) gets past its admission checks in this state.
EnableAdmitted ==
    /\ charger.switch_gpio >= 0
    /\ ~EnableRefused

\* The DISABLE_DCIN_EN vote of the enable is cast and returns an error.
DcinVoteFails(in) ==
    /\ EnableAdmitted
    /\ charger.disable_dcin_en_votable \/ "DISABLE_DCIN_EN" \in registry
    /\ vote(dcin_en, WlcDcinEn, TRUE, 0).callback
    /\ in.vote_ret # 0

\* The world r of an enable that stopped at the vote.
AbortedAtVote(r, in) ==
    /\ r.ret = in.vote_ret
    /\ r.c.ben_state = charger.ben_state
    /\ r.gpio = gpio
    /\ ~Has(r.trace, "ben_on")
    /\ ~Has(r.trace, "tx_mode_on")
    /\ r.c.rtx_err = charger.rtx_err
    /\ r.c.rtx_csp = charger.rtx_csp

\* C21: when the DISABLE_DCIN_EN vote of p9382_set_rtx(enable) fails, the
\* function returns that error, ben_state and the outputs are as they were
\* (Disabled and deasserted when RTX was off), transmit mode is not
\* commanded and rtx_err and rtx_csp are not reset.
C21_FailedVoteAborts ==
    \A in \in EnvRtx :
        DcinVoteFails(in) => AbortedAtVote(p9382_set_rtx(World, TRUE, in), in)

\* An enable from RTX off returned the error of the vote.
C21_EnableStoppedAtVote ==
    /\ call.op = "rtx_store_1"
    /\ call.ret = -EIO
    /\ call.trace = <<"vote_dcin_en">>
    /\ charger.ben_state = RTX_BEN_DISABLED
    /\ gpio = [ben |-> 0, sw |-> 0]

\* The vote of the enable succeeds and chip_tx_mode_en(true) fails.
TxModeFails(in) ==
    /\ EnableAdmitted
    /\ ~DcinVoteFails(in)
    /\ in.tx_mode_ret < 0

\* The world r of an enable that was reverted.
Reverted(r, in) ==
    /\ r.ret = in.tx_mode_ret
    /\ r.c.ben_state = RTX_BEN_DISABLED
    /\ r.gpio = [ben |-> 0, sw |-> 0]
    /\ ~r.dcin_en.votes[WlcDcinEn].enabled

\* C22: when chip_tx_mode_en(true) fails after the outputs were asserted,
\* p9382_set_rtx(enable) ends with ben_state Disabled, both outputs
\* deasserted and the DISABLE_DCIN_EN vote released, and returns the error.
C22_FailedTxModeReverts ==
    \A in \in EnvRtx :
        TxModeFails(in) => Reverted(p9382_set_rtx(World, TRUE, in), in)

\* An enable asserted the outputs, failed to enter transmit mode and was
\* reverted.
C22_EnableReverted ==
    /\ call.op = "rtx_store_1"
    /\ call.ret = -EIO
    /\ Has(call.trace, "ben_on")
    /\ Has(call.trace, "unvote_dcin_en")
    /\ charger.ben_state = RTX_BEN_DISABLED

(***************************************************************************)
(* SpecRtxIrq: rtx_irq_handler with every outcome of its register reads,   *)
(* against the rtx store, the clock and txid_work.                         *)
(***************************************************************************)
EnvRtxIrqSrc ==
    {{"TXCONFLICT"}, {"MODECHANGED", "TXCONFLICT"}, {"RXCONNECTED"}, {"CSP"}}

EnvRtxIrqIn ==
    {[mode_ret |-> mr, status_ret |-> sr, status |-> st, csp |-> 1, rtx |-> RtxOk] :
        mr \in {0, -EIO}, sr \in {0, -EIO}, st \in {{}, {"RXCONNECTED"}, {"CSP"}}}

\* rtx_irq_handler got past its two register reads.
StatusRead(irq_src, in) ==
    /\ "MODECHANGED" \in irq_src => in.mode_ret = 0
    /\ in.status_ret = 0

\* What the interrupt told: a conflicting transmitter, a receiver that the
\* status register shows connected or gone, or something else.
RtxIrqOp(irq_src, in) ==
    IF "TXCONFLICT" \in irq_src THEN "rtx_irq_conflict"
    ELSE IF "RXCONNECTED" \in irq_src /\ StatusRead(irq_src, in)
    THEN (IF "RXCONNECTED" \in in.status THEN "rtx_irq_connect"
          ELSE "rtx_irq_disconnect")
    ELSE "rtx_irq"

\* The time of a connect the status register shows is kept.
seen_connect(w, irq_src, in) ==
    IF RtxIrqOp(irq_src, in) = "rtx_irq_connect"
    THEN [w EXCEPT !.timer.connect = w.timer.now]
    ELSE w

RtxIrq(irq_src, in) ==
    /\ charger.ben_state # RTX_BEN_DISABLED
    /\ Returns(rtx_irq_handler(seen_connect(World, irq_src, in), irq_src, in),
               RtxIrqOp(irq_src, in))
    /\ pc' = pc

\* p9382_txid_work runs once its delay has passed; what it sends is not
\* part of the state.
TxidWork ==
    /\ "txid_work" \in pending
    /\ timer.now >= timer.txid
    /\ Ends([cancel_delayed_work(World, "txid_work") EXCEPT !.timer.txid = -1])
    /\ pc' = pc

Tick ==
    /\ timer.now < MaxTime
    /\ timer' = [timer EXCEPT !.now = @ + 1]
    /\ call' = NoCall
    /\ UNCHANGED <<charger, registry, dc_icl, tx_icl, dcin_en, gpio, pending,
                   pc, over, published, fault, fod, poll, tx>>

NextRtxIrq ==
    \/ \E irq_src \in EnvRtxIrqSrc, in \in EnvRtxIrqIn : RtxIrq(irq_src, in)
    \/ \E buf0 \in {"0", "1"} : RtxStore(buf0, RtxOk)
    \/ TxidWork
    \/ Tick

SpecRtxIrq ==
    Init /\ [][NextRtxIrq]_vars

\* C23: every RTX interrupt with the conflicting-transmitter bit leaves
\* rtx_err at TX_CONFLICT, ben_state Disabled and the DISABLE_DCIN_EN vote
\* released, with no transmit-mode-off command, whatever the register
\* reads of the handler returned.
C23_ConflictAlwaysDisables ==
    [][call'.op = "rtx_irq_conflict"
          => /\ charger'.rtx_err = "RTX_TX_CONFLICT"
             /\ charger'.ben_state = RTX_BEN_DISABLED
             /\ ~dcin_en'.votes[WlcDcinEn].enabled
             /\ ~Has(call'.trace, "tx_mode_off")]_vars

C25_BackoffOnceBeforePoll ==
    /\ [][(over.pc # "poll" /\ over'.pc = "poll")
             => /\ over'.clears = 0
                /\ over'.reads = 0
                /\ IF charger.dc_icl_votable
                      /\ dc_icl.effective_result > OVC_BACKOFF_LIMIT
                   THEN /\ over'.voted
                        /\ dc_icl'.votes =
                               [dc_icl.votes EXCEPT ![OcpDcIcl] =
                                   [enabled |-> TRUE,
                                    value |-> dc_icl.effective_result
                                                  - OVC_BACKOFF_AMOUNT]]
                   ELSE /\ ~over'.voted
                        /\ dc_icl' = dc_icl]_vars
    /\ [][(over.pc = "poll" /\ over' # over) => dc_icl' = dc_icl]_vars

\* The limit was backed off to OVC_BACKOFF_LIMIT and the loop not begun.
C25_BackedOffToLimit ==
    /\ over.pc = "poll"
    /\ over.voted
    /\ over.clears = 0
    /\ dc_icl.votes[OcpDcIcl] = [enabled |-> TRUE, value |-> OVC_BACKOFF_LIMIT]
    /\ dc_icl.effective_result = OVC_BACKOFF_LIMIT

\* C26: with under-voltage raised and over-current, over-voltage and
\* over-temperature clear, p9221_over_handle ends at once: no vote changes,
\* no interrupt is cleared, no output current is read, no EOP is sent.
C26_UnderVoltageIgnored ==
    [][(over' # over /\ over'.first = {"UV"})
          => /\ over'.pc = "done"
             /\ over'.eops = <<>>
             /\ ~over'.voted
             /\ over'.clears = 0
             /\ over'.reads = 0
             /\ dc_icl' = dc_icl
             /\ tx_icl' = tx_icl
             /\ dcin_en' = dcin_en]_vars

\* An under-voltage interrupt was handled while the limit was above
\* OVC_BACKOFF_LIMIT.
C26_UnderVoltageSeen ==
    /\ over.pc = "done"
    /\ over.first = {"UV"}
    /\ charger.online
    /\ dc_icl.effective_result > OVC_BACKOFF_LIMIT

\* p9221_over_handle is over for an over-current interrupt.
OverCurrentDone ==
    /\ over.pc = "done"
    /\ "OVC" \in over.first
    /\ over.first \cap {"OVV", "OVT"} = {}

\* C27: when a status read in the poll loop shows the over-current bit
\* cleared, p9221_over_handle has returned in that iteration: no EOP, no
\* further clear or read, whatever the samples were.
C27_ClearedStopsPolling ==
    /\ [](OverCurrentDone /\ "OVC" \notin over.irq_src
             => /\ over.eops = <<>>
                /\ over.i < P9221R5_OVER_CHECK_NUM
                /\ over.clears = over.i + 1)
    /\ [][(over.pc = "poll" /\ "OVC" \notin over'.irq_src)
             => over'.pc = "done"]_vars

\* The bit cleared on the last attempt, after samples above the threshold.
C27_ClearedAfterHighSamples ==
    /\ OverCurrentDone
    /\ "OVC" \notin over.irq_src
    /\ over.clears = P9221R5_OVER_CHECK_NUM
    /\ over.ovc_count > OVC_LIMIT
    /\ over.eops = <<>>

\* C28: when the loop ran out with fewer than OVC_LIMIT samples above
\* OVC_THRESHOLD, unread samples not counting, no EOP has been sent.
C28_TransientNoEop ==
    (OverCurrentDone /\ over.i = P9221R5_OVER_CHECK_NUM
                     /\ over.ovc_count < OVC_LIMIT)
        => over.eops = <<>>

\* The bit stayed through three polls: one sample could not be read, the
\* others were not above the threshold.
C28_PersistedBelowThreshold ==
    /\ OverCurrentDone
    /\ over.i = P9221R5_OVER_CHECK_NUM
    /\ "OVC" \in over.irq_src
    /\ over.clears = P9221R5_OVER_CHECK_NUM
    /\ over.reads = P9221R5_OVER_CHECK_NUM - 1
    /\ over.ovc_count = 0
    /\ over.eops = <<>>

(***************************************************************************)
(* More properties of going offline (SpecSession).                         *)
(***************************************************************************)
\* C29: the step in which p9221_set_offline takes the session offline, with
\* DC_ICL found, leaves WLC_VOTER at P9221_DC_ICL_BPP_UA, OCP_VOTER at
\* dc_icl_epp or P9221_DC_ICL_EPP_UA, and no vote of DCIN_AICL_VOTER active.
C29_OfflineResetsVotes ==
    [][(charger.online /\ ~charger'.online /\ charger'.dc_icl_votable)
          => /\ dc_icl'.votes[ClientId(DcIclClients, "WLC_VOTER")]
                    = [enabled |-> TRUE, value |-> P9221_DC_ICL_BPP_UA]
             /\ dc_icl'.votes[OcpDcIcl]
                    = [enabled |-> TRUE,
                       value |-> IF charger'.dc_icl_epp > 0
                                 THEN charger'.dc_icl_epp
                                 ELSE P9221_DC_ICL_EPP_UA]
             /\ ~dc_icl'.votes[ClientId(DcIclClients, "DCIN_AICL_VOTER")].enabled]_vars

\* C30: whenever the session is not online the alignment score is -1, the
\* manufacturer code is 0 and the gate is not being checked.
C30_OfflineScoreUnknown ==
    ~charger.online
        => /\ charger.alignment = -1
           /\ charger.mfg = 0
           /\ charger.alignment_capable # "ALIGN_MFG_CHECKING"

(***************************************************************************)
(* More properties of the presence poll (SpecSession).                     *)
(***************************************************************************)
\* C31: a run of p9221_dcin_work whose status read succeeded queues
\* dcin_work again and changes nothing else of the session; a run whose
\* read failed leaves the session offline, notifies the power-supply
\* framework and leaves dcin_work unqueued.
C31_DcinPollStopsOnFailedRead ==
    [][/\ (pc.dcin = "ok" /\ pc'.dcin = "idle")
             => /\ "dcin_work" \in pending'
                /\ charger' = charger
                /\ ~Has(call'.trace, "power_supply_changed")
       /\ (pc.dcin = "timeout" /\ pc'.dcin = "idle")
             => /\ ~charger'.online
                /\ "dcin_work" \notin pending'
                /\ Has(call'.trace, "power_supply_changed")]_vars

\* The poll failed on a session that was online: it is offline, notified,
\* the cooldown is queued and the poll is not.
C31_PollTookSessionOffline ==
    /\ call.op = "dcin_work"
    /\ Has(call.trace, "power_supply_changed")
    /\ ~charger.online
    /\ charger.alignment_capable = "ALIGN_MFG_FAILED"
    /\ "dcin_pon_work" \in pending
    /\ "dcin_work" \notin pending

(***************************************************************************)
(* SpecEpp: the profile query p9221_is_epp against every answer of the     *)
(* chip, while sessions of the older chip set and reset force_bpp and the  *)
(* force_epp attribute is written.                                         *)
(***************************************************************************)
\* p9221_force_epp: val is the number written; the board has no slct_gpio.
p9221_force_epp(w, val) ==
    [w EXCEPT !.c.fake_force_epp = (val # 0), !.ret = 0]

ForceEppStore(val) ==
    /\ Returns(p9221_force_epp(World, val), "force_epp")
    /\ pc' = pc

\* A call of p9221_is_epp: ret is 1 for Extended and 0 for Basic, and the
\* trace holds what the chip answers for the system mode and for VOUT.
IsEpp(chip) ==
    /\ Returns([World EXCEPT !.c = is_epp_effect(charger, chip),
                             !.ret = IF p9221_is_epp(charger, chip) THEN 1 ELSE 0,
                             !.trace = <<chip.sys_mode, chip.vout_mv>>],
               "is_epp")
    /\ pc' = pc

\* Sessions on pads below and above 10 W, the second kind by either maker.
EnvEppSessionChips ==
    {[sys_mode |-> "WPC_BASIC", vout_mv |-> 5000, mfg |-> mfg, np |-> np,
      fod_io |-> <<[ret |-> "ok", data |-> FodBpp]>>, status_ret |-> 0,
      vout |-> TRUE,
      vout_io |-> <<[set_ret |-> 0, get_ret |-> 0, vout_mv |-> 5000]>>] :
        mfg \in {1, P9221_PTMC_EPP_TX_1912}, np \in {"lt10W", "ge11W"}}

\* Every system mode, a failed mode read, and VOUT at, above and below the
\* threshold or unreadable (-1).
EnvEppQueryChips ==
    {[BppChip EXCEPT !.sys_mode = mode, !.vout_mv = mv] :
        mode \in {"WPC_BASIC", "WPC_EXTD", "PROPRIETARY", "err"},
        mv \in {-1, 5000, P9221_EPP_THRESHOLD_UV \div 1000,
                P9221_EPP_THRESHOLD_UV \div 1000 + 1}}

NextEpp ==
    \/ IrqThread({"VRECT"}, FALSE)
    \/ NotifierCb
    \/ \E dc_in \in {0, 1}, chip \in EnvEppSessionChips :
           NotifierWorkBegin(dc_in, chip)
    \/ \E dc_in \in {0, 1}, chip \in EnvEppSessionChips :
           NotifierWorkEnd(dc_in, chip)
    \/ \E val \in {0, 1} : ForceEppStore(val)
    \/ \E chip \in EnvEppQueryChips : IsEpp(chip)

SpecEpp ==
    InitRetry /\ [][NextEpp]_vars

\* The rule of the profile without an override, from the chip's answers.
ProfileRead(mode, vout_mv) ==
    IF mode # "err" THEN mode \in {"WPC_EXTD", "PROPRIETARY"}
    ELSE vout_mv >= 0 /\ vout_mv * 1000 > P9221_EPP_THRESHOLD_UV

\* C32: with force_bpp set every p9221_is_epp returns Basic whatever else
\* holds; with no override it returns Extended exactly when the mode read
\* is WPC-extended or proprietary or, the mode unreadable, when VOUT is
\* above P9221_EPP_THRESHOLD_UV.
C32_ForceBppWins ==
    [][call'.op = "is_epp"
          => /\ charger.force_bpp => call'.ret = 0
             /\ (~charger.force_bpp /\ ~charger.fake_force_epp)
                    => (call'.ret = 1
                           <=> ProfileRead(call'.trace[1], call'.trace[2]))]_vars

(***************************************************************************)
(* SpecRamp: the ICL ramp (alarm, callback, icl_ramp_work) of sessions on  *)
(* basic and extended pads, with property packets that tell whether the    *)
(* transmitter is a phone.                                                 *)
(***************************************************************************)
NextRamp ==
    \/ \E irq_src \in {{"VRECT"}, {"PPRCVD"}}, phone \in BOOLEAN :
           IrqThread(irq_src, phone)
    \/ NotifierCb
    \/ \E dc_in \in {0, 1}, chip \in {BppChip, EppChip} :
           NotifierWorkBegin(dc_in, chip)
    \/ \E dc_in \in {0, 1}, chip \in {BppChip, EppChip} :
           NotifierWorkEnd(dc_in, chip)
    \/ IclRampAlarmFire
    \/ IclRampAlarmCb
    \/ \E rc \in BOOLEAN, chip \in {BppChip, EppChip} : IclRampWork(rc, chip)

SpecRamp ==
    Init /\ [][NextRamp]_vars

\* C33: a step that raises the WLC_VOTER vote on DC_ICL to icl_ramp_ua is
\* taken with no dc_icl_bpp override, with ramping configured, and not while
\* the transmitter is a phone (chg_on_rtx).
C33_NoRampOnPhone ==
    [][(dc_icl'.votes[WlcDcIcl].value = charger.icl_ramp_ua
        /\ dc_icl.votes[WlcDcIcl].value # charger.icl_ramp_ua)
          => /\ charger'.icl_ramp
             /\ charger'.dc_icl_bpp = 0
             /\ charger'.icl_ramp_delay_ms # -1
             /\ ~charger'.chg_on_rtx]_vars

(***************************************************************************)
(* SpecClear: p9221_over_handle polling while the status register shows    *)
(* limit bits other than the ones the interrupt delivered.                 *)
(***************************************************************************)
EnvOverStatus ==
    {{}, {"OVC"}, {"OVC", "OVT"}, {"OVC", "UV"}}

NextClear ==
    \/ NotifierCb
    \/ \E dc_in \in {0, 1}, chip \in {EppChip, EppOtherChip} :
           NotifierWorkBegin(dc_in, chip)
    \/ \E irq_src \in EnvOverIrq : OverHandleBegin(irq_src)
    \/ \E clear_ret \in {0, -EIO}, iout \in EnvIout, status_ret \in {0, -EIO},
          status \in EnvOverStatus :
           OverHandlePoll([clear_ret |-> clear_ret, iout |-> iout,
                           status_ret |-> status_ret, status |-> status])

SpecClear ==
    Init /\ [][NextClear]_vars

\* C34: the interrupt bits p9221_over_handle clears in its loop are limit
\* bits of the status the interrupt delivered.
C34_ClearsOnlyDelivered ==
    over.cleared \subseteq (over.first \cap P9221R5_STAT_LIMIT_MASK)


(***************************************************************************)
(* SpecBus: the register sequences of the driver running side by side.     *)
(* One step is one register transfer (p9221_reg_read_n and                 *)
(* p9221_reg_write_n hold io_lock for one transfer); mutex_lock(cmd_lock)  *)
(* is taken with the first transfer of a sequence and released with the    *)
(* last.  chip_set_cmd is one transfer.                                    *)
(***************************************************************************)
\* The registers each sequence under cmd_lock goes through, in order.
CmdSeq(t) ==
    CASE t = "send_eop" -> <<"EPT_REG", "COM_SENDEPT">>
      [] t = "send_csp" -> <<"CHARGE_STAT_REG", "COM_SENDCSP">>
      [] t = "clear_interrupts" -> <<"INT_CLEAR_REG", "COM_CLEAR_INT_MASK">>
      [] t = "txid_work" -> <<"PACKET_TYPE_ADDR", "DATA_BUF", "COM_CCACTIVATE">>
      [] OTHER -> <<"DATA_BUF", "CC_SEND_SIZE", "COM_CCACTIVATE">>

\* A register transfer of sequence t lands on the bus: every other
\* sequence that is between two of its steps has been cut into.
BusOp(x, t) ==
    [x EXCEPT !.cut = @ \cup {u \in TxThreads \ {t} : x.at[u].pc = "run"}]

\* What p9221_store_txlen does when p9221_send_data returns ret.
store_txlen_end(w, ret) ==
    IF ret # 0 THEN [w EXCEPT !.tx.done = TRUE, !.ret = ret]
    ELSE schedule_delayed_work(w, "tx_work")

\* The end of a sequence under cmd_lock: mutex_unlock, and for
\* p9221_send_data the error path and the return to p9221_store_txlen.
cmd_seq_end(w, t, ret) ==
    LET w1 == [w EXCEPT !.tx.cmd_lock = "none", !.tx.at[t] = SeqIdle]
    IN  IF t \notin TxlenThreads THEN w1
        ELSE store_txlen_end(IF ret # 0 THEN [w1 EXCEPT !.tx.busy = FALSE]
                             ELSE w1, ret)

\* The next register transfer of sequence t, with result ret.
\* p9382_txid_work goes on to load the buffer when its first write failed
\* (ret |= ...); every other sequence stops at the first failure.
cmd_seq_step(w, t, ret) ==
    LET k == w.tx.at[t].k + 1
        acc == IF w.tx.at[t].ret # 0 THEN w.tx.at[t].ret ELSE ret
        stop == \/ k = Len(CmdSeq(t))
                \/ acc # 0 /\ ~(t = "txid_work" /\ k = 1)
        w1 == [w EXCEPT !.tx = BusOp(@, t)]
    IN  IF stop THEN cmd_seq_end(w1, t, acc)
        ELSE [w1 EXCEPT !.tx.cmd_lock = t,
                        !.tx.at[t] = [pc |-> "run", k |-> k, ret |-> acc]]

\* mutex_lock(cmd_lock) and the first transfer of a sequence.
CmdSeqBegin(t, ret) ==
    /\ tx.cmd_lock = "none"
    /\ tx.at[t].pc = IF t \in TxlenThreads THEN "set" ELSE "idle"
    /\ Returns(cmd_seq_step(World, t, ret), t)
    /\ pc' = pc

CmdSeqStep(t, ret) ==
    /\ tx.cmd_lock = t
    /\ Returns(cmd_seq_step(World, t, ret), t)
    /\ pc' = pc

\* p9221_store_txlen up to the test of tx_busy in p9221_send_data.
store_txlen_check(w, t) ==
    LET w1 == [cancel_delayed_work(w, "tx_work") EXCEPT !.tx.done = FALSE]
    IN  IF w1.tx.busy THEN store_txlen_end(w1, -EBUSY)
        ELSE [w1 EXCEPT !.tx.at[t] = [pc |-> "passed", k |-> 0, ret |-> 0]]

StoreTxlenCheck(t) ==
    /\ tx.at[t].pc = "idle"
    /\ Returns(store_txlen_check(World, t), t)
    /\ pc' = pc

\* charger->tx_busy = true in p9221_send_data.
StoreTxlenSet(t) ==
    /\ tx.at[t].pc = "passed"
    /\ Returns([World EXCEPT !.tx.busy = TRUE, !.tx.at[t].pc = "set"], t)
    /\ pc' = pc

\* One turn of the loop of p9221_write_fod: the write, then the read-back.
FodWrite(ret) ==
    /\ tx.at["write_fod"].pc = "idle"
    /\ Ends([World EXCEPT
                !.tx = IF ret # 0 THEN BusOp(@, "write_fod")
                       ELSE [BusOp(@, "write_fod") EXCEPT
                                !.at["write_fod"].pc = "run"]])
    /\ pc' = pc

FodVerify ==
    /\ tx.at["write_fod"].pc = "run"
    /\ Ends([World EXCEPT
                !.tx = [BusOp(@, "write_fod") EXCEPT
                           !.at["write_fod"] = SeqIdle]])
    /\ pc' = pc

\* p9221_tx_work: the send timed out.
p9221_tx_work(w) ==
    [w EXCEPT !.pending = @ \ {"tx_work"}, !.tx.busy = FALSE, !.tx.done = TRUE]

TxWork ==
    /\ "tx_work" \in pending
    /\ Ends(p9221_tx_work(World))
    /\ pc' = pc

\* p9221_irq_handler with the send-complete bit.
irq_send_complete(w) ==
    cancel_delayed_work([w EXCEPT !.tx.busy = FALSE, !.tx.done = TRUE],
                        "tx_work")

IrqSendComplete ==
    /\ charger.ben_state = RTX_BEN_DISABLED
    /\ Ends(irq_send_complete(World))
    /\ pc' = pc

NextBus ==
    \/ \E t \in CmdThreads, ret \in {0, -EIO} : CmdSeqBegin(t, ret)
    \/ \E t \in CmdThreads, ret \in {0, -EIO} : CmdSeqStep(t, ret)
    \/ \E t \in TxlenThreads : StoreTxlenCheck(t)
    \/ \E t \in TxlenThreads : StoreTxlenSet(t)
    \/ \E ret \in {0, -EIO} : FodWrite(ret)
    \/ FodVerify
    \/ TxWork
    \/ IrqSendComplete

SpecBus ==
    Init /\ [][NextBus]_vars

\* C35: no register transfer of one sequence lands between two steps of
\* another sequence.
C35_SequencesAtomic ==
    tx.cut = {}

\* C36: the run of notifier_work that the negotiated-power check queued
\* again, with no interrupt and no "dc" notification since, checks the
\* negotiated power again: it clears check_np or queues itself once more.
C36_RequeuedRunChecksAgain ==
    [][(/\ poll.np = 1
        /\ charger.check_np
        /\ ~charger.check_det
        /\ "notifier_work" \in pending
        /\ pc.notifier = "idle"
        /\ "notifier_work" \notin pending')
           => ~charger'.check_np]_vars

(***************************************************************************)
(* SpecSend: writers of the txlen attribute, the send timeout, the         *)
(* interrupts that end a send and the session going online and offline.    *)
(* A queued tx_work runs when its delay is over, and a writer that is in   *)
(* p9221_send_data goes on; interrupts and notifications may never come.   *)
(***************************************************************************)
\* p9221_irq_handler with the CC-reset bit.
IrqCcReset ==
    /\ charger.ben_state = RTX_BEN_DISABLED
    /\ Ends(p9221_abort_transfers(World))
    /\ pc' = pc

SendDataRuns ==
    \/ \E t \in TxlenThreads : StoreTxlenSet(t)
    \/ \E t \in TxlenThreads, ret \in {0, -EIO} : CmdSeqBegin(t, ret)
    \/ \E t \in TxlenThreads, ret \in {0, -EIO} : CmdSeqStep(t, ret)

NextSend ==
    \/ \E t \in TxlenThreads : StoreTxlenCheck(t)
    \/ SendDataRuns
    \/ TxWork
    \/ IrqSendComplete
    \/ IrqCcReset
    \/ NotifierCb
    \/ \E dc_in \in {0, 1} : NotifierWorkBegin(dc_in, BppChip)

SpecSend ==
    Init /\ [][NextSend]_vars /\ WF_vars(TxWork) /\ WF_vars(SendDataRuns)

\* C37: once p9221_store_txlen has started a send (tx_busy set, the
\* timeout queued), tx_busy becomes false and tx_done true.
C37_SendEnds ==
    (tx.busy /\ "tx_work" \in pending) ~> (~tx.busy /\ tx.done)

\* C38: of the writers of txlen that are in p9221_send_data, at most one
\* is past the test of tx_busy.
C38_OneSendInFlight ==
    Cardinality({t \in TxlenThreads : tx.at[t].pc # "idle"}) <= 1

\* C39: while RTX is disabled no txid_work is queued.
C39_NoTxidWhileDisabled ==
    charger.ben_state = RTX_BEN_DISABLED => "txid_work" \notin pending

(***************************************************************************)
(* SpecDet: the detection interrupt, the "dc" notification and the status  *)
(* interrupt arriving whether RTX is enabled or not, with the two          *)
(* alignment timers.                                                       *)
(***************************************************************************)
WLC_ALIGN_IRQ_THRESHOLD == 10

\* Detection interrupts counted in one session of the model.
MaxAlignCount == 12

irq_det_align(w) ==
    IF w.c.align = "WLC_ALIGN_MOVE" THEN w
    ELSE [w EXCEPT !.c.align = IF w.c.align_count + 1 > WLC_ALIGN_IRQ_THRESHOLD
                               THEN "WLC_ALIGN_MOVE" ELSE "WLC_ALIGN_CHECKING",
                   !.c.align_count = @ + 1]

\* del_timer(align_timer), mod_timer(vrect_timer).
irq_det_timers(w) ==
    [w EXCEPT !.pending = (@ \ {"align_timer"}) \cup {"vrect_timer"}]

p9221_irq_det_thread(w) ==
    IF w.c.online \/ w.c.ben_state # RTX_BEN_DISABLED THEN w
    ELSE irq_det_timers(irq_det_align(w))

IrqDetThread ==
    /\ charger.align_count < MaxAlignCount
    /\ Returns(p9221_irq_det_thread(World), "irq_det")
    /\ pc' = pc

p9221_vrect_timer_handler(w) ==
    [w EXCEPT !.c.align = IF @ = "WLC_ALIGN_CHECKING" THEN "WLC_ALIGN_MOVE" ELSE @,
              !.pending = (@ \ {"vrect_timer"}) \cup {"align_timer"}]

VrectTimer ==
    /\ "vrect_timer" \in pending
    /\ Ends(p9221_vrect_timer_handler(World))
    /\ pc' = pc

p9221_align_timer_handler(w) ==
    [w EXCEPT !.c.align = "WLC_ALIGN_ERROR", !.pending = @ \ {"align_timer"}]

AlignTimer ==
    /\ "align_timer" \in pending
    /\ Ends(p9221_align_timer_handler(World))
    /\ pc' = pc

\* p9221_notifier_cb for a change of the "dc" power supply, whatever
\* ben_state is.
NotifierCbRun ==
    /\ Returns(p9221_notifier_cb(World), "notifier_cb")
    /\ pc' = pc

EnvDetIrq ==
    {[resume_complete |-> TRUE, read_ret |-> 0, irq_src |-> src, clear_ret |-> 0,
      phone |-> FALSE,
      rtx |-> [mode_ret |-> 0, status_ret |-> 0, status |-> src, csp |-> 1,
               rtx |-> RtxOk]] :
        src \in {{"VRECT"}, {"VRECT", "TXCONFLICT"}, {"VRECT", "CSP"}}}

NextDet ==
    \/ IrqDetThread
    \/ VrectTimer
    \/ AlignTimer
    \/ NotifierCbRun
    \/ \E in \in EnvDetIrq : IrqThreadRun(in)
    \/ \E buf0 \in {"0", "1"} : RtxStore(buf0, RtxOk)
    \/ \E dc_in \in {0, 1} : NotifierWorkBegin(dc_in, BppChip)
    \/ \E dc_in \in {0, 1} : NotifierWorkEnd(dc_in, BppChip)

SpecDet ==
    Init /\ [][NextDet]_vars

\* C40: with ben_state not RTX_BEN_DISABLED, p9221_notifier_cb queues no
\* notifier_work and leaves check_dc and dc_psy alone, p9221_irq_thread
\* does not set check_det, and p9221_irq_det_thread, as when online,
\* changes no alignment state and arms or stops no timer.
C40_DetectionIgnoredInRtx ==
    /\ [][(charger.ben_state # RTX_BEN_DISABLED /\ call'.op = "notifier_cb")
             => /\ pending' = pending
                /\ charger'.check_dc = charger.check_dc
                /\ charger'.dc_psy = charger.dc_psy]_vars
    /\ [][(charger.ben_state # RTX_BEN_DISABLED /\ call'.op = "irq_thread"
           /\ ~charger.check_det)
             => ~charger'.check_det]_vars
    /\ [][((charger.ben_state # RTX_BEN_DISABLED \/ charger.online)
           /\ call'.op = "irq_det")
             => /\ charger'.align = charger.align
                /\ charger'.align_count = charger.align_count
                /\ pending' = pending]_vars

\* A "dc" notification arrived while RTX was enabled, and nothing is queued.
C40_NotifiedInRtx ==
    /\ charger.ben_state # RTX_BEN_DISABLED
    /\ call.op = "notifier_cb"
    /\ ~charger.check_dc
    /\ ~charger.dc_psy
    /\ "notifier_work" \notin pending

=============================================================================
